---- MODULE Spec2Model ----
(***************************************************************************)
(* Render / transcribe / upload pipeline of the HLS converter.             *)
(*                                                                         *)
(* Threads: the Tk UI thread (user commands and callbacks posted with      *)
(* root.after), and one render worker thread per accepted Start command    *)
(* (RetroHlsApp._render_worker), which walks the queue and calls the       *)
(* S3UploadManager.  External tools (ffprobe, ffmpeg, whisper, the HTTP    *)
(* backend, the file system) answer nondeterministically.                  *)
(*                                                                         *)
(* The specifications share the definitions:                               *)
(*   Spec          one queue run against the whole environment, with       *)
(*                 history writes that succeed                             *)
(*   SpecRuns      successive Start commands over encodes, transcription   *)
(*                 and history writes that succeed or fail                 *)
(*   SpecUpload    the S3UploadManager called on its own                   *)
(*   SpecEncode    one run of _render_single_quality                       *)
(*   SpecPlaylist  the master playlist builders called on their own        *)
(*   SpecSanitize  sanitize_folder_name called on its own                  *)
(*   SpecForm      the S3 fields edited while a run reads them             *)
(*   SpecProgress  the overall progress bar during queue runs              *)
(***************************************************************************)
EXTENDS Integers, Sequences, FiniteSets, TLC

\* ---------------------------------------------------------------- bounds
MaxObjects == 2     \* files found under an output directory by rglob
MaxNameLen == 4     \* characters in a name given to sanitize_folder_name
MaxFormFiles == 2   \* files of a run that reads the S3 fields
MaxProgFiles == 2   \* files of a run seen through its progress state
MaxProgRuns == 1    \* runs started while the progress state is watched
MaxPosted == 2      \* progress callbacks waiting in the Tk event queue

\* ------------------------------------------------------ program constants
MAX_RETRIES == 3
RETRY_DELAYS == <<1, 3, 10>>
QUALITY_ORDER == <<"1080p", "720p", "480p", "360p">>

\* Times parsed from the encoder and probed durations are in milliseconds,
\* waiting times in seconds, percentages in hundredths of a percent.
Epsilon == 1            \* total_s = max(float(self.duration_s), 0.001)
ProgressStep == 20      \* percent >= last_percent + 0.2
StallSeconds == 30      \* time.time() - last_activity > 30

None == "None"

\* Source videos the user can pick.  Both have the base name "x", so both
\* render into the same output folder.
Paths == {"a/x.mp4", "b/x.mp4"}

\* States of the four quality check boxes the user starts a run with.
QualityChoices == {{"720p", "480p"}, {"1080p"}, {}}

\* Worker threads, in the order in which Start commands launch them.
Threads == {"T1", "T2"}

VARIABLES
    \* RetroHlsApp attributes
    render_queue, is_running, jobs_total, jobs_done, current_selected,
    file_path, output_dir, audio_exists, last_output_dir,
    s3_upload_cancel, history,
    \* environment: S3 configuration, output folders, playlists on disk, and
    \* the folders the delete-local step has removed
    s3_configured, dirs, masters, subtitles, deleted_local, temp_audio,
    \* Tk event queue (callbacks posted with root.after) and what the UI showed:
    \* the summary of each run and the overall progress bar as the summary
    \* handler leaves it (the paints posted during a run are not kept)
    uiQueue, summaries, overall_bar,
    \* worker threads: position and locals of _render_worker
    pc, files, selected, idx, q_idx, file_result, queue_results, master_path,
    trans, up,
    \* observation of the current file of each worker
    stages,
    \* the S3UploadManager call in progress when it is driven on its own
    call,
    \* one run of _render_single_quality when it is driven on its own
    enc,
    \* the master playlist last written by a playlist builder called on its own
    manifest,
    \* the last call of sanitize_folder_name made on its own
    folder,
    \* the S3 fields of the window, and a run reading them, on their own
    form,
    \* a queue run seen through its progress state: the counters, the posted
    \* progress callbacks, the transcript timer and the overall bar
    prog

appVars == <<render_queue, is_running, jobs_total, jobs_done, current_selected,
             file_path, output_dir, audio_exists, last_output_dir,
             s3_upload_cancel, history>>
envVars == <<s3_configured, dirs, masters, subtitles, deleted_local, temp_audio>>
uiVars == <<uiQueue, summaries, overall_bar>>
workerVars == <<pc, files, selected, idx, q_idx, file_result, queue_results,
                master_path, trans, up, stages>>
unitVars == <<enc, manifest, folder, form, prog>>
exceptEnc == <<manifest, folder, form, prog>>
exceptManifest == <<enc, folder, form, prog>>
exceptFolder == <<enc, manifest, form, prog>>
exceptForm == <<enc, manifest, folder, prog>>
exceptProg == <<enc, manifest, folder, form>>
vars == <<appVars, envVars, uiVars, workerVars, call, unitVars>>

\* ------------------------------------------------------- pure functions

\* os.path.splitext(os.path.basename(fp))[0]
BaseName(fp) ==
    CASE fp = "a/x.mp4" -> "x"
      [] fp = "b/x.mp4" -> "x"

\* os.path.join(output_base_dir, sanitize_folder_name(base) + "_hls")
OutputDirOf(fp) == CASE BaseName(fp) = "x" -> "x_hls"

\* [q for q in QUALITY_ORDER if self.quality_vars[q].get()]
RECURSIVE SelectFrom(_, _)
SelectFrom(order, vs) ==
    IF order = <<>> THEN <<>>
    ELSE (IF Head(order) \in vs THEN <<Head(order)>> ELSE <<>>)
         \o SelectFrom(Tail(order), vs)

SelectedQualities(vs) == SelectFrom(QUALITY_ORDER, vs)

\* [f for f in seq if f in keep], order preserved
RECURSIVE FilterSeq(_, _)
FilterSeq(seq, keep) ==
    IF seq = <<>> THEN <<>>
    ELSE (IF Head(seq) \in keep THEN <<Head(seq)>> ELSE <<>>)
         \o FilterSeq(Tail(seq), keep)

Range(seq) == {seq[i] : i \in 1..Len(seq)}

\* file_result as created at the top of the loop body
NewFileResult(fp) ==
    [file |-> fp, status |-> "failed", output_dir |-> None, error |-> None,
     master_path |-> None, transcript_paths |-> FALSE,
     subtitle_playlist_path |-> None, transcript_error |-> None]

\* locals of the transcription stage, with two observations kept beside them:
\* audio is what has_audio_stream returned for this file, enabled is the check
\* box as the stage's test read it
NoTrans == [success |-> FALSE, paths |-> FALSE, subtitle |-> None,
            audio |-> FALSE, enabled |-> FALSE]
NoUpload == [total |-> 0, uploaded |-> 0]

NoSummary == [kind |-> "pending", success_count |-> 0, failure_count |-> 0,
              total |-> 0]

NoCall == [op |-> "none", total |-> 0, outcome |-> "none", inputs |-> <<>>,
           presign |-> <<>>, put |-> <<>>, sleeps |-> <<>>, uploaded |-> <<>>,
           progress |-> <<>>, cancel |-> <<>>]

\* no encode started: the locals of _render_single_quality and what the
\* run did (callbacks posted, log written, process killed)
NoEncode == [state |-> "none", result |-> "none", duration |-> 0, total_s |-> 0,
             cur_s |-> 0, percent |-> 0, parsed |-> FALSE, last_percent |-> 0,
             idle |-> 0, posted |-> <<>>, stalled |-> FALSE, log |-> FALSE,
             killed |-> FALSE, reported |-> FALSE,
             qdir |-> "absent"]

\* no master playlist written
NoManifest == [builder |-> "none", given |-> <<>>, subtitles |-> FALSE,
               variants |-> <<>>]

\* sanitize_folder_name not called yet; strings are sequences of characters
NoFolder == [called |-> FALSE, name |-> <<>>, result |-> <<>>]

\* the progress state as __init__ leaves it, no run in progress: the
\* attributes, the worker's position (pos, idx, q_idx, the k of n files sent),
\* the number of runs started,
\* the posted callbacks, and three observations: transcript_state is the
\* state last given to _set_transcript_progress, last is the latest overall
\* percentage applied (its terms, and who posted it), writer the thread
\* that last wrote progress state
NoProg ==
    [jobs_total |-> 0, jobs_done |-> 0, audio_exists |-> FALSE,
     transcribe_enabled |-> FALSE, selected |-> <<>>,
     per_quality_progress |-> [q \in {"1080p", "720p"} |-> -1],
     current_job_percent |-> 0, overall_bar |-> 0,
     after_id |-> FALSE, simulated_pct |-> 0, transcript_bar |-> 0,
     transcript_state |-> "idle",
     pos |-> "idle", idx |-> 0, q_idx |-> 0, k |-> 0, n |-> 0,
     runs |-> 0, posted |-> <<>>,
     last |-> [by |-> "none", phase |-> "none", file |-> 0, done |-> 0,
               frac |-> 0, reserve |-> FALSE],
     writer |-> "none"]

\* the S3 box and entries as the window is built, no run in progress; cid,
\* vid_display and lang are the worker's locals, sent what the run has sent
\* for its current file
NoForm ==
    [s3_enabled |-> FALSE, s3_course_id |-> <<>>, s3_video_name |-> <<>>,
     s3_language |-> <<"e", "n">>,
     pos |-> "idle", left |-> 0, cid |-> <<>>, vid_display |-> <<>>,
     lang |-> <<>>, sent |-> <<>>]

UploadPhase == {"upload_directory", "upload_loop", "upload_returned",
                "create_record", "s3_except"}

Event(op, w, arg) == [op |-> op, w |-> w, arg |-> arg]

\* Progress values are kept in hundredths of a percent, files done in
\* hundredths of a file: ((jobs_done + effective) / jobs_total) * 100.0
OverallPercent(done, total) == (done * 100) \div total

\* ---------------------------------------------------------------- Init
Init ==
    /\ render_queue = <<>>
    /\ is_running = FALSE
    /\ jobs_total = 0
    /\ jobs_done = 0
    /\ current_selected = <<>>
    /\ file_path = None
    /\ output_dir = None
    /\ audio_exists = FALSE
    /\ last_output_dir = None
    /\ s3_upload_cancel = FALSE
    \* load_history(): the keys of the history dict, and the state of
    \* output_history.json relative to the dict ("current": the same entries)
    /\ history = [keys |-> {}, file |-> "current"]
    /\ s3_configured \in BOOLEAN
    /\ dirs = {}
    /\ masters = {}
    /\ subtitles = {}
    /\ deleted_local = {}
    /\ temp_audio = {}
    /\ uiQueue = <<>>
    /\ summaries = [w \in Threads |-> NoSummary]
    /\ overall_bar = 0
    /\ pc = [w \in Threads |-> "idle"]
    /\ files = [w \in Threads |-> <<>>]
    /\ selected = [w \in Threads |-> <<>>]
    /\ idx = [w \in Threads |-> 0]
    /\ q_idx = [w \in Threads |-> 0]
    /\ file_result = [w \in Threads |-> NewFileResult(None)]
    /\ queue_results = [w \in Threads |-> <<>>]
    /\ master_path = [w \in Threads |-> None]
    /\ trans = [w \in Threads |-> NoTrans]
    /\ up = [w \in Threads |-> NoUpload]
    /\ stages = [w \in Threads |-> <<>>]
    /\ call = NoCall
    /\ enc = NoEncode
    /\ manifest = NoManifest
    /\ folder = NoFolder
    /\ form = NoForm
    /\ prog = NoProg

\* ----------------------------------------------------------- user commands

\* on_add_files: refused while running; appends the picked file unless queued
on_add_files(fp) ==
    /\ ~is_running
    /\ fp \notin Range(render_queue)
    /\ render_queue' = Append(render_queue, fp)
    /\ UNCHANGED <<is_running, jobs_total, jobs_done, current_selected,
                   file_path, output_dir, audio_exists, last_output_dir,
                   s3_upload_cancel, history>>
    /\ UNCHANGED <<envVars, uiVars, workerVars, call, unitVars>>

\* on_remove_selected: refused while running; deletes the selected row
on_remove_selected(i) ==
    /\ ~is_running
    /\ i \in 1..Len(render_queue)
    /\ render_queue' = SubSeq(render_queue, 1, i - 1)
                       \o SubSeq(render_queue, i + 1, Len(render_queue))
    /\ UNCHANGED <<is_running, jobs_total, jobs_done, current_selected,
                   file_path, output_dir, audio_exists, last_output_dir,
                   s3_upload_cancel, history>>
    /\ UNCHANGED <<envVars, uiVars, workerVars, call, unitVars>>

\* on_clear_list: refused while running
on_clear_list ==
    /\ ~is_running
    /\ render_queue # <<>>
    /\ render_queue' = <<>>
    /\ UNCHANGED <<is_running, jobs_total, jobs_done, current_selected,
                   file_path, output_dir, audio_exists, last_output_dir,
                   s3_upload_cancel, history>>
    /\ UNCHANGED <<envVars, uiVars, workerVars, call, unitVars>>

\* _on_s3_cancel.  The Cancel Upload button is enabled by a callback the
\* worker posts on entering the upload phase and disabled by one it posts on
\* leaving it.
on_s3_cancel ==
    /\ \E w \in Threads : pc[w] \in UploadPhase
    /\ ~s3_upload_cancel
    /\ s3_upload_cancel' = TRUE
    /\ UNCHANGED <<render_queue, is_running, jobs_total, jobs_done,
                   current_selected, file_path, output_dir, audio_exists,
                   last_output_dir, history>>
    /\ UNCHANGED <<envVars, uiVars, workerVars, call, unitVars>>

\* The check boxes and entry fields are Tk variables the user can edit at any
\* time, also during a run; each .get() is an input of the action reading it.

\* on_start.  quality_vars and s3_enabled are the check boxes as read, mode/sel
\* the answer to the "Render Mode" dialog, present the files os.path.isfile
\* finds.  Every early return leaves the state unchanged.  w is the thread
\* the command launches: the first one not yet used.
on_start(w, quality_vars, s3_enabled, mode, sel, present) ==
    /\ ~is_running
    /\ render_queue # <<>>
    /\ SelectedQualities(quality_vars) # <<>>
    /\ s3_enabled => s3_configured
    /\ pc[w] = "idle"
    /\ w = "T2" => pc["T1"] # "idle"
    /\ sel \in 1..Len(render_queue)
    /\ mode = "selected" => render_queue[sel] \in present
    /\ LET files_to_render == IF mode = "selected" THEN <<render_queue[sel]>>
                              ELSE render_queue
           valid_files == FilterSeq(files_to_render, present)
       IN  /\ valid_files # <<>>
           /\ files' = [files EXCEPT ![w] = valid_files]
           /\ jobs_total' = Len(valid_files)
    /\ current_selected' = SelectedQualities(quality_vars)
    /\ selected' = [selected EXCEPT ![w] = SelectedQualities(quality_vars)]
    /\ jobs_done' = 0
    /\ last_output_dir' = None
    /\ is_running' = TRUE
    /\ pc' = [pc EXCEPT ![w] = "start"]
    /\ UNCHANGED <<render_queue, file_path, output_dir, audio_exists,
                   s3_upload_cancel, history>>
    /\ UNCHANGED <<envVars, uiVars, call, unitVars>>
    /\ UNCHANGED <<idx, q_idx, file_result, queue_results, master_path,
                   trans, up, stages>>

\* ------------------------------------------------- callbacks on the UI thread

\* _finish_with_error (posted by the stall watchdog)
_finish_with_error ==
    /\ is_running' = FALSE
    /\ UNCHANGED <<last_output_dir, summaries, overall_bar>>
    /\ UNCHANGED workerVars

\* The overall bar as _finish_queue_complete leaves it: _update_overall(100.0)
\* and then, for each q in current_selected, _update_quality_progress(q,
\* 100.0, current_selected), which ends with _update_overall(queue_percent)
\* computed from the average of the selected qualities (100 after the last
\* one), jobs_done and jobs_total
FinalOverall(transcribe_enabled) ==
    LET avg == 100
        effective == IF avg >= 100 /\ transcribe_enabled /\ audio_exists
                     THEN 85 ELSE avg
    IN  IF current_selected = <<>> THEN OverallPercent(100, 1)
        ELSE IF jobs_total > 0
        THEN OverallPercent(jobs_done * 100 + effective, jobs_total)
        ELSE OverallPercent(avg, 1)

\* variant of SummaryOf: one success makes the run "all succeeded"
SummaryOfAnySuccess(results) ==
    LET successes == {i \in 1..Len(results) : results[i].status = "success"}
        failures == {i \in 1..Len(results) : results[i].status = "failed"}
        kind == IF results = <<>> THEN "none"
                ELSE IF Cardinality(successes) > 0 THEN "all_succeeded"
                ELSE "all_failed"
    IN  [kind |-> kind, success_count |-> Cardinality(successes),
         failure_count |-> Cardinality(failures), total |-> Len(results)]

\* classification shown by _finish_queue_complete
SummaryOf(results) ==
    LET successes == {i \in 1..Len(results) : results[i].status = "success"}
        failures == {i \in 1..Len(results) : results[i].status = "failed"}
        kind == IF results = <<>> THEN "none"
                ELSE IF Cardinality(failures) = 0 THEN "all_succeeded"
                ELSE IF Cardinality(successes) = 0 THEN "all_failed"
                ELSE "partial"
    IN  [kind |-> kind, success_count |-> Cardinality(successes),
         failure_count |-> Cardinality(failures), total |-> Len(results)]

\* last record with status success and an output directory, or None
LastSuccess(results) ==
    LET ok == {i \in 1..Len(results) :
                 results[i].status = "success" /\ results[i].output_dir # None}
    IN  IF ok = {} THEN None
        ELSE results[CHOOSE i \in ok : \A j \in ok : j <= i].output_dir

\* _finish_queue_complete(results) for the run of worker w; the thread of w
\* has ended, so its locals are dropped.  With an empty result list the
\* handler returns before it touches the progress bars.
_finish_queue_complete(w, results, transcribe_enabled) ==
    /\ is_running' = FALSE
    /\ overall_bar' = IF results = <<>> THEN overall_bar
                      ELSE FinalOverall(transcribe_enabled)
    /\ last_output_dir' = IF LastSuccess(results) # None
                          THEN LastSuccess(results) ELSE last_output_dir
    /\ summaries' = [summaries EXCEPT ![w] = SummaryOf(results)]
    /\ pc' = [pc EXCEPT ![w] = "delivered"]
    /\ files' = [files EXCEPT ![w] = <<>>]
    /\ selected' = [selected EXCEPT ![w] = <<>>]
    /\ idx' = [idx EXCEPT ![w] = 0]
    /\ q_idx' = [q_idx EXCEPT ![w] = 0]
    /\ file_result' = [file_result EXCEPT ![w] = NewFileResult(None)]
    /\ queue_results' = [queue_results EXCEPT ![w] = <<>>]
    /\ master_path' = [master_path EXCEPT ![w] = None]
    /\ trans' = [trans EXCEPT ![w] = NoTrans]
    /\ up' = [up EXCEPT ![w] = NoUpload]
    /\ stages' = [stages EXCEPT ![w] = <<>>]

\* The Tk main loop runs the oldest posted callback.  transcribe_enabled is
\* the check box as the callback reads it.
UiStep(transcribe_enabled) ==
    /\ uiQueue # <<>>
    /\ uiQueue' = Tail(uiQueue)
    /\ LET ev == Head(uiQueue)
       IN  CASE ev.op = "finish_with_error" ->
                    ~transcribe_enabled /\ _finish_with_error
             [] ev.op = "finish_queue_complete" ->
                    _finish_queue_complete(ev.w, ev.arg, transcribe_enabled)
    /\ UNCHANGED <<render_queue, jobs_total, jobs_done, current_selected,
                   file_path, output_dir, audio_exists, s3_upload_cancel, history>>
    /\ UNCHANGED <<envVars, call, unitVars>>

\* ------------------------------------------------ _render_worker, per thread

Post(evs) == uiQueue' = uiQueue \o evs

\* queue_results.append(file_result.copy()); self.jobs_done = idx; continue
RecordAndContinue(w, res) ==
    /\ queue_results' = [queue_results EXCEPT ![w] = Append(@, res)]
    /\ file_result' = [file_result EXCEPT ![w] = res]
    /\ jobs_done' = idx[w]
    /\ pc' = [pc EXCEPT ![w] = "loop"]

\* the outer "except Exception" of the loop body: a record is appended only
\* when the status is not yet "success"
UnexpectedError(w) ==
    /\ IF file_result[w].status # "success"
       THEN /\ queue_results' = [queue_results EXCEPT ![w] =
                Append(@, [file_result[w] EXCEPT !.error = "Unexpected error"])]
            /\ file_result' = [file_result EXCEPT ![w].error = "Unexpected error"]
       ELSE UNCHANGED <<queue_results, file_result>>
    /\ jobs_done' = idx[w]
    /\ pc' = [pc EXCEPT ![w] = "loop"]

Stage(w, s) == stages' = [stages EXCEPT ![w] = Append(@, s)]

\* before the loop: safe_mkdir(output_base_dir) is outside every try block,
\* so an OSError from it ends the thread
WorkerBegin(w, mkdir_ok) ==
    /\ pc[w] = "start"
    /\ pc' = [pc EXCEPT ![w] = IF mkdir_ok THEN "loop" ELSE "crashed"]
    /\ UNCHANGED <<appVars, envVars, uiVars, call, unitVars>>
    /\ UNCHANGED <<files, selected, idx, q_idx, file_result, queue_results,
                   master_path, trans, up, stages>>

\* top of the for loop, the isfile re-check, and the post after the loop
NextFile(w, exists) ==
    /\ pc[w] = "loop"
    /\ IF idx[w] = Len(files[w])
       THEN /\ Post(<<Event("finish_queue_complete", w, queue_results[w])>>)
            /\ pc' = [pc EXCEPT ![w] = "done"]
            /\ exists
            /\ UNCHANGED <<idx, file_result, queue_results, jobs_done, stages,
                           trans, up, q_idx>>
       ELSE LET i == idx[w] + 1
                fp == files[w][i]
            IN  /\ idx' = [idx EXCEPT ![w] = i]
                /\ stages' = [stages EXCEPT ![w] = <<>>]
                /\ trans' = [trans EXCEPT ![w] = NoTrans]
                /\ up' = [up EXCEPT ![w] = NoUpload]
                /\ q_idx' = [q_idx EXCEPT ![w] = 0]
                /\ UNCHANGED uiQueue
                /\ IF exists
                   THEN /\ file_result' = [file_result EXCEPT ![w] = NewFileResult(fp)]
                        /\ pc' = [pc EXCEPT ![w] = "setup"]
                        /\ UNCHANGED <<queue_results, jobs_done>>
                   ELSE /\ file_result' = [file_result EXCEPT ![w] =
                                [NewFileResult(fp) EXCEPT !.error = "File missing"]]
                        /\ queue_results' = [queue_results EXCEPT ![w] =
                                Append(@, [NewFileResult(fp) EXCEPT !.error = "File missing"])]
                        /\ jobs_done' = i
                        /\ pc' = [pc EXCEPT ![w] = "loop"]
    /\ UNCHANGED <<render_queue, is_running, jobs_total, current_selected,
                   file_path, output_dir, audio_exists, last_output_dir,
                   s3_upload_cancel, history>>
    /\ UNCHANGED <<envVars, summaries, overall_bar, files, selected, master_path,
                   call, unitVars>>

\* file_path/output_dir, safe_mkdir(output_dir), get_video_info, has_audio_stream
\* outcome: "mkdir_raises", "probe_raises" or "ok"
SetupFile(w, outcome, audio) ==
    /\ pc[w] = "setup"
    /\ file_path' = files[w][idx[w]]
    /\ output_dir' = OutputDirOf(files[w][idx[w]])
    /\ dirs' = IF outcome = "mkdir_raises" THEN dirs
               ELSE dirs \cup {OutputDirOf(files[w][idx[w]])}
    /\ IF outcome = "ok"
       THEN /\ audio_exists' = audio
            /\ current_selected' = selected[w]
            /\ q_idx' = [q_idx EXCEPT ![w] = 1]
            /\ pc' = [pc EXCEPT ![w] = "render"]
            /\ Stage(w, "probe")
            /\ trans' = [trans EXCEPT ![w].audio = audio]
            /\ UNCHANGED <<jobs_done, queue_results, file_result>>
       ELSE /\ UnexpectedError(w)
            /\ ~audio
            /\ UNCHANGED <<audio_exists, current_selected, q_idx, stages, trans>>
    /\ UNCHANGED <<render_queue, is_running, jobs_total, last_output_dir,
                   s3_upload_cancel, history>>
    /\ UNCHANGED <<s3_configured, masters, subtitles, deleted_local, temp_audio>>
    /\ UNCHANGED <<uiVars, files, selected, idx, master_path, up, call,
                   unitVars>>

\* variant of RenderError: the failure leaves no message
RenderErrorEmpty(outcome) == None

\* render_error for a failed _render_single_quality: err, or the message for
\* (False, None)
RenderError(outcome) ==
    CASE outcome = "launch_failed" -> "Failed to start ffmpeg"
      [] outcome = "exit_nonzero" -> "FFmpeg failed"
      [] outcome = "stuck" -> "Rendering was interrupted"

\* one pass of the quality loop: _render_single_quality(q, ...) and the
\* handling of its result.  outcome: "ok", "launch_failed" (Popen raises),
\* "exit_nonzero", "stuck" (30 s without output) or "raises" (makedirs/write_log)
RenderQuality(w, outcome) ==
    /\ pc[w] = "render"
    /\ dirs' = IF outcome = "raises" THEN dirs ELSE dirs \cup {output_dir}
    /\ CASE outcome = "ok" ->
             /\ Stage(w, "encode_ok")
             /\ IF q_idx[w] < Len(selected[w])
                THEN /\ q_idx' = [q_idx EXCEPT ![w] = @ + 1]
                     /\ UNCHANGED pc
                ELSE /\ pc' = [pc EXCEPT ![w] = "master"]
                     /\ UNCHANGED q_idx
             /\ UNCHANGED <<uiQueue, queue_results, file_result, jobs_done>>
         [] outcome = "raises" ->
             /\ Stage(w, "encode_raised")
             /\ UnexpectedError(w)
             /\ UNCHANGED <<uiQueue, q_idx>>
         [] OTHER ->
             /\ Stage(w, "encode_failed")
             /\ RecordAndContinue(w, [file_result[w] EXCEPT
                                        !.error = RenderError(outcome)])
             /\ IF outcome = "stuck"
                THEN Post(<<Event("finish_with_error", w, None)>>)
                ELSE UNCHANGED uiQueue
             /\ UNCHANGED q_idx
    /\ UNCHANGED <<render_queue, is_running, jobs_total, current_selected,
                   file_path, output_dir, audio_exists, last_output_dir,
                   s3_upload_cancel, history>>
    /\ UNCHANGED <<s3_configured, masters, subtitles, deleted_local, temp_audio>>
    /\ UNCHANGED <<summaries, overall_bar, files, selected, idx, master_path,
                   trans, up, call, unitVars>>

\* variant of add_master_playlist: the call returns without a file written
add_master_playlist_lost(present, dir) == present

\* add_master_playlist / add_master_playlist_with_subtitles: master.m3u8 is
\* there once the call has returned; present is the set of folders holding one
add_master_playlist(present, dir) == present \cup {dir}

\* the initial master playlist and the except branch around it
WriteMaster(w, ok) ==
    /\ pc[w] = "master"
    /\ ok => output_dir \in dirs
    /\ IF ok
       THEN /\ masters' = add_master_playlist(masters, output_dir)
            /\ master_path' = [master_path EXCEPT ![w] = output_dir]
            /\ file_result' = [file_result EXCEPT ![w].master_path = output_dir]
            /\ pc' = [pc EXCEPT ![w] = "transcribe"]
            /\ Stage(w, "master_ok")
            /\ UNCHANGED <<queue_results, jobs_done>>
       ELSE /\ Stage(w, "master_failed")
            /\ RecordAndContinue(w, [file_result[w] EXCEPT
                                       !.error = "Master playlist write failed"])
            /\ UNCHANGED <<masters, master_path>>
    /\ UNCHANGED <<render_queue, is_running, jobs_total, current_selected,
                   file_path, output_dir, audio_exists, last_output_dir,
                   s3_upload_cancel, history>>
    /\ UNCHANGED <<s3_configured, dirs, subtitles, deleted_local, temp_audio>>
    /\ UNCHANGED <<uiVars, files, selected, idx, q_idx, trans, up, call,
                   unitVars>>

\* How the transcription stage can end:
\*   "extract_failed"   extract_audio_from_video returned (False, msg)
\*   "engine_failed"    transcribe_audio_with_whisper returned (False, {}, msg)
\*   "no_subtitle_file" the VTT/SRT file is not there after transcription
\*   "playlist_failed"  create_subtitle_playlist raised
\*   "ok"               transcript files and subtitle playlist written
\* or with an exception caught by the stage's own "except Exception":
\*   "raises"                  before the engine's result was stored
\*   "raises_after_transcript" after transcript_paths was stored
\*   "raises_after_subtitles"  after the subtitle playlist was created
TranscribeOutcomes ==
    {"ok", "extract_failed", "engine_failed", "no_subtitle_file",
     "playlist_failed", "raises", "raises_after_transcript",
     "raises_after_subtitles"}

\* variant of TranscriptError: the stage's failures go unrecorded
TranscriptErrorSilent(outcome) == None

\* file_result["transcript_error"] as the stage leaves it (messages by kind)
TranscriptError(outcome) ==
    CASE outcome \in {"extract_failed", "engine_failed"} -> "Transcription failed"
      [] outcome \in {"no_subtitle_file", "playlist_failed"} -> "Subtitle playlist failed"
      [] outcome \in {"raises", "raises_after_transcript", "raises_after_subtitles"}
             -> "Transcription error"
      [] OTHER -> None

\* Whether <base>_temp_audio.wav is in the output folder when the stage is
\* over.  The clean-up (os.remove with every exception ignored) is the last
\* statement of the "if success:" branch: it is reached when extraction
\* succeeded and nothing raised, and audio_left then says that os.remove
\* failed.  The stage's except branch and the extraction-failed branch remove
\* nothing: there audio_left says that ffmpeg wrote (part of) the file.
TempAudioLeft(outcome, audio_left, was_there) ==
    CASE outcome \in {"ok", "engine_failed", "no_subtitle_file", "playlist_failed"}
             -> audio_left
      [] outcome \in {"raises_after_transcript", "raises_after_subtitles"} -> TRUE
      [] OTHER -> was_there \/ audio_left

\* the test that opens the transcription stage
TranscribeCondition(enabled, audio) == enabled /\ audio

\* the transcription stage (if enabled and the source has audio)
Transcribe(w, transcribe_enabled, outcome, audio_left) ==
    /\ pc[w] = "transcribe"
    /\ pc' = [pc EXCEPT ![w] = "finish_render"]
    /\ IF ~TranscribeCondition(transcribe_enabled, audio_exists)
       THEN /\ outcome = "ok" /\ ~audio_left
            /\ trans' = [trans EXCEPT ![w].enabled = transcribe_enabled]
            /\ UNCHANGED <<file_result, subtitles, stages, temp_audio>>
       ELSE LET engine_ok == outcome \notin {"extract_failed", "engine_failed", "raises"}
                playlist == outcome \in {"ok", "raises_after_subtitles"}
                sub == IF playlist THEN output_dir ELSE None
            IN  /\ engine_ok => output_dir \in dirs
                /\ trans' = [trans EXCEPT ![w] =
                       [success |-> engine_ok, paths |-> engine_ok,
                        subtitle |-> sub, audio |-> trans[w].audio,
                        enabled |-> transcribe_enabled]]
                /\ file_result' = [file_result EXCEPT
                       ![w].transcript_paths = engine_ok,
                       ![w].subtitle_playlist_path = sub,
                       ![w].transcript_error = TranscriptError(outcome)]
                /\ subtitles' = IF playlist THEN subtitles \cup {output_dir}
                                ELSE subtitles
                /\ audio_left = TempAudioLeft(outcome, audio_left, FALSE)
                /\ temp_audio' =
                       IF TempAudioLeft(outcome, audio_left, output_dir \in temp_audio)
                       THEN temp_audio \cup {output_dir}
                       ELSE temp_audio \ {output_dir}
                /\ Stage(w, outcome)
    /\ UNCHANGED appVars
    /\ UNCHANGED <<s3_configured, dirs, masters, deleted_local>>
    /\ UNCHANGED <<uiVars, files, selected, idx, q_idx, queue_results,
                   master_path, up, call, unitVars>>

\* variant of RebuildCondition: the master playlist is always rebuilt
RebuildAlways(t, on_disk) == TRUE

\* "if subtitle_playlist_path and os.path.exists(subtitle_playlist_path) and
\* trans_success"; t holds the locals of the transcription stage
RebuildCondition(t, on_disk) ==
    /\ t.subtitle # None
    /\ t.subtitle \in on_disk
    /\ t.success

\* rebuild of the master playlist with subtitles (only after a transcription
\* that produced a subtitle playlist), then the "Success" assignments
FinishRender(w, rebuild_ok) ==
    /\ pc[w] = "finish_render"
    /\ pc' = [pc EXCEPT ![w] = "history"]
    /\ LET rebuild == RebuildCondition(trans[w], subtitles)
           mp == IF rebuild /\ rebuild_ok THEN output_dir ELSE master_path[w]
           terr == IF rebuild /\ ~rebuild_ok /\ file_result[w].transcript_error = None
                   THEN "Failed to add subtitles to master playlist"
                   ELSE file_result[w].transcript_error
       IN  /\ rebuild /\ rebuild_ok => output_dir \in dirs
           /\ ~rebuild => rebuild_ok
           /\ masters' = IF rebuild /\ rebuild_ok
                         THEN add_master_playlist(masters, output_dir)
                         ELSE masters
           /\ master_path' = [master_path EXCEPT ![w] = mp]
           /\ file_result' = [file_result EXCEPT
                  ![w].transcript_error = terr,
                  ![w].status = "success",
                  ![w].output_dir = output_dir,
                  ![w].master_path = mp]
           /\ IF rebuild
              THEN Stage(w, IF rebuild_ok THEN "rebuild_ok" ELSE "rebuild_failed")
              ELSE UNCHANGED stages
    /\ UNCHANGED appVars
    /\ UNCHANGED <<s3_configured, dirs, subtitles, deleted_local, temp_audio>>
    /\ UNCHANGED <<uiVars, files, selected, idx, q_idx, queue_results, trans,
                   up, call, unitVars>>

\* history[fp] = entry; save_history(...); last_output_dir; then the test
\* that opens the S3 upload phase.  raises: an exception in these statements,
\* which run after the status became "success" and before the append.
\* write: what save_history did to output_history.json; it swallows every
\* exception, so a failed open leaves the old file ("stale") and a failed
\* dump leaves the file that open(..., "w") truncated
SaveHistory(w, s3_enabled, raises, write) ==
    /\ pc[w] = "history"
    /\ IF raises
       THEN /\ ~s3_enabled
            /\ UnexpectedError(w)
            /\ UNCHANGED <<history, last_output_dir, s3_upload_cancel, up>>
       ELSE /\ history' = [keys |-> history.keys \cup {files[w][idx[w]]},
                            file |-> IF write = "stale" /\ history.file = "truncated"
                                     THEN "truncated" ELSE write]
            /\ last_output_dir' = output_dir
            /\ UNCHANGED <<queue_results, file_result, jobs_done>>
            /\ IF s3_enabled /\ s3_configured
               THEN /\ s3_upload_cancel' = FALSE
                    /\ up' = [up EXCEPT ![w] = NoUpload]
                    /\ pc' = [pc EXCEPT ![w] = "upload_directory"]
               ELSE /\ pc' = [pc EXCEPT ![w] = "complete"]
                    /\ UNCHANGED <<s3_upload_cancel, up>>
    /\ UNCHANGED <<render_queue, is_running, jobs_total, current_selected,
                   file_path, output_dir, audio_exists>>
    /\ UNCHANGED <<envVars, uiVars, call, unitVars>>
    /\ UNCHANGED <<files, selected, idx, q_idx, master_path, trans, stages>>

\* variant of S3Except: the upload error downgrades the status
S3ExceptDowngrade(w) ==
    /\ pc[w] = "s3_except"
    /\ RecordAndContinue(w, [file_result[w] EXCEPT !.error = "S3/File record error",
                                                   !.status = "failed"])
    /\ Stage(w, "upload_failed")
    /\ UNCHANGED <<render_queue, is_running, jobs_total, current_selected,
                   file_path, output_dir, audio_exists, last_output_dir,
                   s3_upload_cancel, history>>
    /\ UNCHANGED <<envVars, uiVars, call, unitVars>>
    /\ UNCHANGED <<files, selected, idx, q_idx, master_path, trans, up>>

\* the "except Exception as s3_err" branch of the upload phase
S3Except(w) ==
    /\ pc[w] = "s3_except"
    /\ RecordAndContinue(w, [file_result[w] EXCEPT !.error = "S3/File record error"])
    /\ Stage(w, "upload_failed")
    /\ UNCHANGED <<render_queue, is_running, jobs_total, current_selected,
                   file_path, output_dir, audio_exists, last_output_dir,
                   s3_upload_cancel, history>>
    /\ UNCHANGED <<envVars, uiVars, call, unitVars>>
    /\ UNCHANGED <<files, selected, idx, q_idx, master_path, trans, up>>

\* the tail of the loop body: jobs_done, the append, the short sleep
CompleteFile(w) ==
    /\ pc[w] = "complete"
    /\ RecordAndContinue(w, file_result[w])
    /\ UNCHANGED <<render_queue, is_running, jobs_total, current_selected,
                   file_path, output_dir, audio_exists, last_output_dir,
                   s3_upload_cancel, history>>
    /\ UNCHANGED <<envVars, uiVars, call, unitVars>>
    /\ UNCHANGED <<files, selected, idx, q_idx, master_path, trans, up, stages>>

\* --------------------------------------------------------- S3UploadManager
\* The backend's answers are inputs: answers[k] is what the k-th HTTP request
\* of a call is answered with.
\*   presign: "ok"        2xx, a JSON object with data holding a signedUrl
\*            "no_url"    2xx, a JSON object with data, but no signedUrl in it
\*            "transient" RequestException, other 4xx/5xx, or a body without data
\*            "auth"      401/403 (PermissionError)
\*            "malformed" 2xx whose JSON is not an object (AttributeError)
\*   put:     "ok"        2xx
\*            "error"     RequestException (raise_for_status for a status
\*                        other than 401/403 included)
\*            "auth"      401/403 (HTTPError from raise_for_status)
PresignAnswers == {"ok", "no_url", "transient", "auth", "malformed"}
PutAnswers == {"ok", "error", "auth"}

\* the retry loop shared by get_presigned_url_exact and upload_file:
\* "for attempt in range(MAX_RETRIES)", returning on an answer in accepted,
\* with an except clause that catches the answers in retried; attempt counts
\* from 0 as in the code.  seen lists the answers of the requests made.
RECURSIVE RetryLoop(_, _, _, _, _)
RetryLoop(answers, accepted, retried, attempt, sleeps) ==
    LET a == answers[attempt + 1]
        seen == SubSeq(answers, 1, attempt + 1)
    IN  IF a \in accepted
        THEN [outcome |-> "returned", answer |-> a, seen |-> seen, sleeps |-> sleeps]
        ELSE IF a \notin retried \/ attempt = MAX_RETRIES - 1
        THEN [outcome |-> "raised", answer |-> a, seen |-> seen, sleeps |-> sleeps]
        ELSE RetryLoop(answers, accepted, retried, attempt + 1,
                       Append(sleeps, RETRY_DELAYS[attempt + 1]))

\* except (requests.exceptions.RequestException, ValueError, PermissionError)
PresignRetried == {"transient", "auth"}

\* variant of get_presigned_url_exact: the except clause does not list
\* RequestException and ValueError
get_presigned_url_exact_uncaught(answers) ==
    RetryLoop(answers, {"ok", "no_url"}, {"auth"}, 0, <<>>)

get_presigned_url_exact(answers) ==
    RetryLoop(answers, {"ok", "no_url"}, PresignRetried, 0, <<>>)

\* except requests.exceptions.RequestException (HTTPError is one)
PutRetried == {"error", "auth"}

\* variant of upload_file: the loop does not return after a 2xx
upload_file_resend(is_file, answers) ==
    IF ~is_file
    THEN [outcome |-> "raised", answer |-> "not_found", seen |-> <<>>,
          sleeps |-> <<>>]
    ELSE RetryLoop(answers, {}, {"ok"} \cup PutRetried, 0, <<>>)

\* except requests.exceptions.RequestException; a missing local file raises
\* FileNotFoundError before the first request
upload_file(is_file, answers) ==
    IF ~is_file
    THEN [outcome |-> "raised", answer |-> "not_found", seen |-> <<>>,
          sleeps |-> <<>>]
    ELSE RetryLoop(answers, {"ok"}, PutRetried, 0, <<>>)

\* body of "for i, p in enumerate(files)" after the cancel check, for one
\* file: presign, signedUrl test, transfer.  put lists the answers of the PUT
\* requests made for the file.
TransferOne(presign_answers, is_file, put_answers) ==
    LET pre == get_presigned_url_exact(presign_answers)
        put == upload_file(is_file, put_answers)
    IN  IF pre.outcome = "raised" \/ pre.answer = "no_url"
        THEN [outcome |-> "raised", presign |-> pre.seen, put |-> <<>>,
              sleeps |-> pre.sleeps]
        ELSE [outcome |-> put.outcome, presign |-> pre.seen, put |-> put.seen,
              sleeps |-> pre.sleeps \o put.sleeps]

\* Answers for the requests of one call.  Those after the answer that ends
\* the retry loop are never asked for; they are fixed to "ok".
Scripts(S, retried) ==
    {s \in [1..MAX_RETRIES -> S] :
        \A k \in 2..MAX_RETRIES : s[k - 1] \notin retried => s[k] = "ok"}

PresignScripts == Scripts(PresignAnswers, PresignRetried)
PutScripts == Scripts(PutAnswers, PutRetried)

\* PUT answers for the files of upload_directory, which hands them to
\* upload_file as they are: failures of one kind
DirectoryPutScripts == Scripts({"ok", "error"}, PutRetried)

\* what one pass of the loop can end in for the caller
TransferOutcomes ==
    {TransferOne(pa, f, fa).outcome :
        pa \in PresignScripts, f \in BOOLEAN, fa \in PutScripts}

\* ------------------------------------- the upload phase of _render_worker

\* variant of Raise: the failed step of the upload phase is run again
RaiseRetry(w) == pc' = [pc EXCEPT ![w] = "create_record"]

\* an exception leaving the upload manager reaches the caller's except branch
Raise(w) == pc' = [pc EXCEPT ![w] = "s3_except"]

\* upload_directory up to its loop: is_dir test and the rglob listing, of
\* which only the number n of files is kept (a rendered folder holds at least
\* its master playlist)
UploadDirectoryBegin(w, n) ==
    /\ pc[w] = "upload_directory"
    /\ n >= 1
    /\ IF output_dir \notin dirs
       THEN \* NotADirectoryError
            /\ n = 1
            /\ Raise(w)
            /\ UNCHANGED up
       ELSE /\ up' = [up EXCEPT ![w] = [total |-> n, uploaded |-> 0]]
            /\ pc' = [pc EXCEPT ![w] = "upload_loop"]
    /\ UNCHANGED <<appVars, envVars, uiVars, call, unitVars>>
    /\ UNCHANGED <<files, selected, idx, q_idx, file_result, queue_results,
                   master_path, trans, stages>>

\* one pass of "for i, p in enumerate(files)": end of list, cancel_check(),
\* or the transfer of the next file
UploadLoop(w, outcome) ==
    /\ pc[w] = "upload_loop"
    /\ IF up[w].uploaded = up[w].total \/ s3_upload_cancel
       THEN /\ outcome = "returned"
            /\ pc' = [pc EXCEPT ![w] = "upload_returned"]
            /\ UNCHANGED up
       ELSE IF outcome = "raised"
       THEN /\ Raise(w)
            /\ UNCHANGED up
       ELSE /\ up' = [up EXCEPT ![w].uploaded = @ + 1]
            /\ UNCHANGED pc
    /\ UNCHANGED <<appVars, envVars, uiVars, call, unitVars>>
    /\ UNCHANGED <<files, selected, idx, q_idx, file_result, queue_results,
                   master_path, trans, stages>>

\* variant of AfterUpload: the cancel flag is not tested after the upload
AfterUploadUnchecked(w) ==
    /\ pc[w] = "upload_returned"
    /\ pc' = [pc EXCEPT ![w] = "create_record"]
    /\ UNCHANGED <<queue_results, file_result, jobs_done, stages>>
    /\ UNCHANGED <<render_queue, is_running, jobs_total, current_selected,
                   file_path, output_dir, audio_exists, last_output_dir,
                   s3_upload_cancel, history>>
    /\ UNCHANGED <<envVars, uiVars, call, unitVars>>
    /\ UNCHANGED <<files, selected, idx, q_idx, master_path, trans, up>>

\* variant of AfterUpload: a cancelled upload is recorded without a message
AfterUploadSilent(w) ==
    /\ pc[w] = "upload_returned"
    /\ IF s3_upload_cancel
       THEN /\ RecordAndContinue(w, file_result[w])
            /\ Stage(w, "upload_cancelled")
       ELSE /\ pc' = [pc EXCEPT ![w] = "create_record"]
            /\ UNCHANGED <<queue_results, file_result, jobs_done, stages>>
    /\ UNCHANGED <<render_queue, is_running, jobs_total, current_selected,
                   file_path, output_dir, audio_exists, last_output_dir,
                   s3_upload_cancel, history>>
    /\ UNCHANGED <<envVars, uiVars, call, unitVars>>
    /\ UNCHANGED <<files, selected, idx, q_idx, master_path, trans, up>>

\* after upload_directory returned: "if self.s3_upload_cancel: ... continue"
AfterUpload(w) ==
    /\ pc[w] = "upload_returned"
    /\ IF s3_upload_cancel
       THEN /\ RecordAndContinue(w, [file_result[w] EXCEPT !.error = "Upload cancelled"])
            /\ Stage(w, "upload_cancelled")
       ELSE /\ pc' = [pc EXCEPT ![w] = "create_record"]
            /\ UNCHANGED <<queue_results, file_result, jobs_done, stages>>
    /\ UNCHANGED <<render_queue, is_running, jobs_total, current_selected,
                   file_path, output_dir, audio_exists, last_output_dir,
                   s3_upload_cancel, history>>
    /\ UNCHANGED <<envVars, uiVars, call, unitVars>>
    /\ UNCHANGED <<files, selected, idx, q_idx, master_path, trans, up>>

\* variant of CreateRecord: the folder is removed before the record call
CreateRecordAfterDelete(w, record_ok, s3_delete_local, rmtree) ==
    /\ pc[w] = "create_record"
    /\ rmtree = "removed"
    /\ dirs' = dirs \ {output_dir}
    /\ masters' = masters \ {output_dir}
    /\ subtitles' = subtitles \ {output_dir}
    /\ temp_audio' = temp_audio \ {output_dir}
    /\ deleted_local' = deleted_local \cup {output_dir}
    /\ IF record_ok
       THEN /\ pc' = [pc EXCEPT ![w] = "complete"]
            /\ Stage(w, "record_created")
       ELSE /\ Raise(w)
            /\ Stage(w, "record_failed")
    /\ UNCHANGED <<appVars, s3_configured, uiVars, call, unitVars>>
    /\ UNCHANGED <<files, selected, idx, q_idx, file_result, queue_results,
                   master_path, trans, up>>

\* create_file_record (one POST, no retry), _save_s3_config, and the
\* delete-local step: shutil.rmtree(self.output_dir) with OSError ignored.
\* rmtree: "removed" (the folder is gone), "partial" (it stopped on an error
\* after deleting the playlists, the rest is left) or "failed" (nothing
\* deleted)
CreateRecord(w, record_ok, s3_delete_local, rmtree) ==
    /\ pc[w] = "create_record"
    /\ IF record_ok
       THEN /\ pc' = [pc EXCEPT ![w] = "complete"]
            /\ Stage(w, "record_created")
            /\ IF s3_delete_local
               THEN /\ dirs' = IF rmtree = "removed" THEN dirs \ {output_dir}
                               ELSE dirs
                    /\ masters' = IF rmtree = "failed" THEN masters
                                  ELSE masters \ {output_dir}
                    /\ subtitles' = IF rmtree = "failed" THEN subtitles
                                    ELSE subtitles \ {output_dir}
                    /\ temp_audio' = IF rmtree = "removed"
                                     THEN temp_audio \ {output_dir} ELSE temp_audio
                    /\ deleted_local' = deleted_local \cup {output_dir}
               ELSE /\ rmtree = "failed"
                    /\ UNCHANGED <<dirs, masters, subtitles, deleted_local, temp_audio>>
       ELSE /\ rmtree = "failed" /\ ~s3_delete_local
            /\ Raise(w)
            /\ Stage(w, "record_failed")
            /\ UNCHANGED <<dirs, masters, subtitles, deleted_local, temp_audio>>
    /\ UNCHANGED <<appVars, s3_configured, uiVars, call, unitVars>>
    /\ UNCHANGED <<files, selected, idx, q_idx, file_result, queue_results,
                   master_path, trans, up>>

\* ------------------------------------ the S3UploadManager called on its own
\* call records the call being made: per file what the environment holds for
\* it (inputs) and the answers of the presign and PUT requests made, every
\* sleep, the list returned so far, the progress callbacks, and what each
\* cancel_check() call returned.

Inputs(presign_answers, is_file, put_answers) ==
    [presign |-> presign_answers, is_file |-> is_file, put |-> put_answers]

CallPresign(answers) ==
    /\ call.outcome # "running"
    /\ LET r == get_presigned_url_exact(answers)
       IN  call' = [NoCall EXCEPT !.op = "get_presigned_url_exact", !.total = 1,
                                  !.inputs = <<Inputs(answers, TRUE, <<>>)>>,
                                  !.outcome = r.outcome, !.presign = <<r.seen>>,
                                  !.sleeps = r.sleeps]
    /\ UNCHANGED <<appVars, envVars, uiVars, workerVars, unitVars>>

CallUploadFile(is_file, answers) ==
    /\ call.outcome # "running"
    /\ LET r == upload_file(is_file, answers)
       IN  call' = [NoCall EXCEPT !.op = "upload_file", !.total = 1,
                                  !.inputs = <<Inputs(<<>>, is_file, answers)>>,
                                  !.outcome = r.outcome, !.put = <<r.seen>>,
                                  !.sleeps = r.sleeps]
    /\ UNCHANGED <<appVars, envVars, uiVars, workerVars, unitVars>>

\* upload_directory up to its loop; n files are listed
CallUploadDirectory(is_dir, n) ==
    /\ call.outcome # "running"
    /\ ~is_dir => n = 0
    /\ call' = [NoCall EXCEPT !.op = "upload_directory", !.total = n,
                              !.outcome = IF is_dir THEN "running" ELSE "raised"]
    /\ UNCHANGED <<appVars, envVars, uiVars, workerVars, unitVars>>

\* variant of ProgressCall: the index of enumerate is passed as it is
ProgressCallIndex(i, total) == <<i - 1, total>>

\* progress_callback(i + 1, total, rel.name), i counting from 0 in the code
\* and from 1 here: the arguments completed-count and total-count
ProgressCall(i, total) == <<i, total>>

\* variant of LoopEnds: the loop does not look at what cancel_check() returned
LoopEndsWhenExhausted(i, total, cancel) == i > total

\* "for i, p in enumerate(files): if cancel_check and cancel_check(): break":
\* file i (from 1) of total is not started
LoopEnds(i, total, cancel) == i > total \/ cancel

\* one pass of its loop; cancel is what cancel_check() returns, and it is
\* not called once the list is exhausted
UploadDirectoryStep(cancel, presign_answers, is_file, put_answers) ==
    /\ call.op = "upload_directory"
    /\ call.outcome = "running"
    /\ LET i == Len(call.presign) + 1
           t == TransferOne(presign_answers, is_file, put_answers)
       IN  IF i > call.total
           THEN /\ ~cancel
                /\ call' = [call EXCEPT !.outcome = "returned"]
           ELSE IF LoopEnds(i, call.total, cancel)
           THEN call' = [call EXCEPT !.outcome = "returned",
                                     !.cancel = Append(@, cancel)]
           ELSE call' = [call EXCEPT
                    !.cancel = Append(@, cancel),
                    !.inputs = Append(@, Inputs(presign_answers, is_file, put_answers)),
                    !.presign = Append(@, t.presign),
                    !.put = Append(@, t.put),
                    !.sleeps = @ \o t.sleeps,
                    !.outcome = IF t.outcome = "raised" THEN "raised" ELSE "running",
                    !.uploaded = IF t.outcome = "raised" THEN @ ELSE Append(@, i),
                    !.progress = IF t.outcome = "raised" THEN @
                                 ELSE Append(@, ProgressCall(i, call.total))]
    /\ UNCHANGED <<appVars, envVars, uiVars, workerVars, unitVars>>

\* ------------------------------------- _render_single_quality on its own

\* probed durations (0: ffprobe gave none) and the times on the -stats lines
Durations == {0, 500, 1000}
Elapsed == {0, 1, 2, 3, 500, 1000, 1500}

\* what one pass of the loop finds on the two pipes: nothing, lines without
\* a time= field, or a -stats line
LineKinds == {"none", "noise", "stats"}

\* seconds between two passes of the loop in which no line arrived (0: the
\* 0.05 s sleep)
QuietSteps == {0, 15, 16}

Min(a, b) == IF a <= b THEN a ELSE b
Max(a, b) == IF a >= b THEN a ELSE b

\* total_s = max(float(self.duration_s), 0.001)
TotalSeconds(duration_s) == Max(duration_s, Epsilon)

\* variant of Percent: the quotient is not clamped
PercentUnclamped(cur_s, total_s) == (cur_s * 10000) \div total_s

\* percent = min(max((cur_s / total_s) * 100.0, 0.0), 100.0)
Percent(cur_s, total_s) == Min(Max((cur_s * 10000) \div total_s, 0), 10000)

\* variant of ProgressDue: every parsed time is posted
ProgressDueAlways(percent, last_percent) == TRUE

\* if percent >= last_percent + 0.2
ProgressDue(percent, last_percent) == percent >= last_percent + ProgressStep

\* _render_single_quality up to its loop, called with total_s computed from
\* the probed duration; launch_ok: subprocess.Popen did not raise.  before is
\* the quality's directory as an earlier run left it ("absent", or "stale":
\* there with its files), rm what shutil.rmtree does to it; an exception of
\* rmtree is swallowed and os.makedirs(qdir, exist_ok=True) follows
StartEncode(duration_s, launch_ok, before, rm) ==
    /\ enc.state # "running"
    /\ before = "absent" => rm = "removed"
    /\ LET qdir == IF before = "stale" /\ rm # "removed" THEN "stale"
                   ELSE "empty"
       IN  enc' = IF launch_ok
                  THEN [NoEncode EXCEPT !.state = "running",
                                        !.duration = duration_s,
                                        !.total_s = TotalSeconds(duration_s),
                                        !.qdir = qdir]
                  ELSE [NoEncode EXCEPT !.state = "returned",
                                        !.duration = duration_s,
                                        !.total_s = TotalSeconds(duration_s),
                                        !.result = "launch_failed",
                                        !.qdir = qdir]
    /\ UNCHANGED <<appVars, envVars, uiVars, workerVars, call, exceptEnc>>

\* One pass of "while True": drain both queues (kind, cur_s: what was there),
\* proc.poll() (exit), the watchdog test, the sleep.  quiet: seconds since the
\* previous pass; log_ok: write_log does not raise.
EncodeIteration(kind, cur_s, exit, quiet, log_ok) ==
    /\ enc.state = "running"
    /\ kind # "stats" => cur_s = 0
    /\ kind # "none" => quiet = 0
    /\ LET percent == Percent(cur_s, enc.total_s)
           due == kind = "stats" /\ ProgressDue(percent, enc.last_percent)
           idle == IF kind = "none" THEN enc.idle + quiet ELSE 0
           drained == [enc EXCEPT
                         !.cur_s = IF kind = "stats" THEN cur_s ELSE @,
                         !.percent = IF kind = "stats" THEN percent ELSE @,
                         !.parsed = @ \/ kind = "stats",
                         !.last_percent = IF due THEN percent ELSE @,
                         !.posted = IF due THEN Append(@, percent) ELSE @,
                         !.idle = idle]
       IN  CASE exit = "zero" ->
                  /\ log_ok
                  /\ enc' = [drained EXCEPT !.state = "returned", !.result = "ok",
                                            !.posted = Append(@, 10000)]
             [] exit = "nonzero" ->
                  enc' = IF log_ok
                         THEN [drained EXCEPT !.state = "returned", !.log = TRUE,
                                              !.result = "exit_nonzero"]
                         ELSE [drained EXCEPT !.state = "raised",
                                              !.result = "raises"]
             [] exit = "running" /\ idle > StallSeconds ->
                  enc' = IF log_ok
                         THEN [drained EXCEPT !.state = "returned", !.stalled = TRUE,
                                              !.log = TRUE, !.killed = TRUE,
                                              !.reported = TRUE, !.result = "stuck"]
                         ELSE [drained EXCEPT !.state = "raised", !.stalled = TRUE,
                                              !.result = "raises"]
             [] OTHER -> log_ok /\ enc' = drained
    /\ UNCHANGED <<appVars, envVars, uiVars, workerVars, call, exceptEnc>>

\* --------------------------------------- the playlist builders on their own

\* QUALITY_PROFILES[q]["bandwidth"]
Bandwidth(q) ==
    CASE q = "1080p" -> 5200000
      [] q = "720p" -> 3000000
      [] q = "480p" -> 1500000
      [] q = "360p" -> 900000

\* the #EXT-X-STREAM-INF entries of master.m3u8, in the order written: one
\* per "for q in selected" (sel), with SUBTITLES="subtitles" when a subtitle track
\* is given
Variants(sel, subtitle_paths) ==
    [k \in 1..Len(sel) |->
        [bandwidth |-> Bandwidth(sel[k]), uri |-> sel[k],
         subtitles |-> subtitle_paths]]

\* lists of distinct qualities a caller can pass
QualityLists ==
    {sel \in UNION {[1..n -> Range(QUALITY_ORDER)] : n \in 1..Len(QUALITY_ORDER)} :
        \A i, j \in DOMAIN sel : i # j => sel[i] # sel[j]}

\* add_master_playlist(output_dir, selected, audio_exists)
CallAddMasterPlaylist(sel) ==
    /\ manifest' = [builder |-> "add_master_playlist", given |-> sel,
                    subtitles |-> FALSE, variants |-> Variants(sel, FALSE)]
    /\ UNCHANGED <<appVars, envVars, uiVars, workerVars, call, exceptManifest>>

\* add_master_playlist_with_subtitles(output_dir, selected, audio_exists,
\* subtitle_paths); with_subtitles: subtitle_paths is not empty
CallAddMasterPlaylistWithSubtitles(sel, with_subtitles) ==
    /\ manifest' = [builder |-> "add_master_playlist_with_subtitles",
                    given |-> sel, subtitles |-> with_subtitles,
                    variants |-> Variants(sel, with_subtitles)]
    /\ UNCHANGED <<appVars, envVars, uiVars, workerVars, call, exceptManifest>>

\* ------------------------------------------ sanitize_folder_name on its own

\* characters a name is made of here: a letter, a space, an underscore and
\* one of the characters that are invalid in Windows folder names
Chars == {"a", " ", "_", "/"}

\* the characters str.strip() removes, of those in Chars
Whitespace == {" "}

\* for ch in ('\\', '/', ':', '*', '?', '"', '<', '>', '|')
InvalidChars == {"\\", "/", ":", "*", "?", "\"", "<", ">", "|"}

\* the names a caller can pass: 1..MaxNameLen characters
Names == UNION {[1..n -> Chars] : n \in 1..MaxNameLen}

\* str.lstrip / str.rstrip / str.strip with the characters cs
RECURSIVE LStrip(_, _)
LStrip(s, cs) ==
    IF s # <<>> /\ Head(s) \in cs THEN LStrip(Tail(s), cs) ELSE s

RECURSIVE RStrip(_, _)
RStrip(s, cs) ==
    IF s # <<>> /\ s[Len(s)] \in cs THEN RStrip(SubSeq(s, 1, Len(s) - 1), cs)
    ELSE s

StrStrip(s, cs) == RStrip(LStrip(s, cs), cs)

\* s.replace(ch, to) for every ch in from, one character each
ReplaceChars(s, from, to) ==
    [i \in 1..Len(s) |-> IF s[i] \in from THEN to ELSE s[i]]

\* "__" in s
HasDouble(s) == \E i \in 1..(Len(s) - 1) : s[i] = "_" /\ s[i + 1] = "_"

\* s.replace("__", "_"): non-overlapping occurrences, from the left
RECURSIVE ReplaceDouble(_)
ReplaceDouble(s) ==
    IF Len(s) < 2 THEN s
    ELSE IF s[1] = "_" /\ s[2] = "_"
    THEN <<"_">> \o ReplaceDouble(SubSeq(s, 3, Len(s)))
    ELSE <<s[1]>> \o ReplaceDouble(Tail(s))

\* while "__" in s: s = s.replace("__", "_")
RECURSIVE Collapse(_)
Collapse(s) == IF HasDouble(s) THEN Collapse(ReplaceDouble(s)) ELSE s

sanitize_folder_name(name) ==
    IF name = <<>> THEN name
    ELSE LET spaced == ReplaceChars(StrStrip(name, Whitespace), {" "}, "_")
             collapsed == Collapse(spaced)
             replaced == ReplaceChars(collapsed, InvalidChars, "_")
             stripped == StrStrip(replaced, {"_"})
         IN  IF stripped # <<>> THEN stripped ELSE StrStrip(name, Whitespace)

CallSanitize(name) ==
    /\ folder' = [called |-> TRUE, name |-> name,
                  result |-> sanitize_folder_name(name)]
    /\ UNCHANGED <<appVars, envVars, uiVars, workerVars, call, exceptFolder>>

\* ------------------------------------------- the S3 fields during a run

\* the characters of [a-fA-F0-9]
HexChars ==
    {"0", "1", "2", "3", "4", "5", "6", "7", "8", "9",
     "a", "b", "c", "d", "e", "f", "A", "B", "C", "D", "E", "F"}

CourseIdLen == 24
MaxVideoNameLen == 200

\* S3Config.SUPPORTED_LANGUAGES
SUPPORTED_LANGUAGES ==
    {<<"e", "n">>, <<"e", "s">>, <<"f", "r">>, <<"d", "e">>, <<"a", "r">>,
     <<"h", "i">>}

\* n times the character c
Fill(c, n) == [i \in 1..n |-> c]

\* what the user can leave in the three entries: a course id that is valid,
\* too short, not hexadecimal or empty; a video name that is empty, short, of
\* the longest accepted length or one longer; a language that is supported,
\* unknown or empty
CourseIds ==
    {<<>>, Fill("a", CourseIdLen - 1), Fill("a", CourseIdLen) \o <<" ">>,
     Fill("g", CourseIdLen)}
VideoNames ==
    {<<>>, <<"a", " ", "b">>, Fill("a", MaxVideoNameLen),
     Fill("a", MaxVideoNameLen + 1)}
Languages == {<<"e", "n">>, <<"x", "x">>, <<>>}

\* Python's (s or d)
OrElse(s, d) == IF s = <<>> THEN d ELSE s

\* on_start's tests of the three stripped fields
FieldsValid(cid, vid, lang) ==
    /\ Len(cid) = CourseIdLen
    /\ \A i \in 1..Len(cid) : cid[i] \in HexChars
    /\ vid # <<>>
    /\ Len(vid) <= MaxVideoNameLen
    /\ lang \in SUPPORTED_LANGUAGES

FormFrame == UNCHANGED <<appVars, envVars, uiVars, workerVars, call, exceptForm>>

\* the user ticks the S3 box or types in one of the entries; nothing locks
\* them while a run is in progress
EditEnabled(b) ==
    /\ form' = [form EXCEPT !.s3_enabled = b]
    /\ FormFrame

EditCourseId(v) ==
    /\ form' = [form EXCEPT !.s3_course_id = v]
    /\ FormFrame

EditVideoName(v) ==
    /\ form' = [form EXCEPT !.s3_video_name = v]
    /\ FormFrame

EditLanguage(v) ==
    /\ form' = [form EXCEPT !.s3_language = v]
    /\ FormFrame

\* on_start with a queue of n files, a quality ticked and the backend
\* configured: the fields are tested when the S3 box is ticked
FormStart(n) ==
    /\ form.pos = "idle"
    /\ form.s3_enabled =>
           FieldsValid(StrStrip(OrElse(form.s3_course_id, <<>>), Whitespace),
                       StrStrip(OrElse(form.s3_video_name, <<>>), Whitespace),
                       StrStrip(OrElse(form.s3_language, <<>>), Whitespace))
    /\ form' = [form EXCEPT !.pos = "worker", !.left = n, !.sent = <<>>]
    /\ FormFrame

\* the worker enters the upload phase of a file: it reads the box and the
\* entries, builds the prefix and uploads under it
FormUploadPhase ==
    /\ form.pos = "worker"
    /\ form.left > 0
    /\ IF form.s3_enabled
       THEN LET cid == StrStrip(OrElse(form.s3_course_id, <<>>), Whitespace)
                vid_display == StrStrip(OrElse(form.s3_video_name, <<>>), Whitespace)
                lang == StrStrip(OrElse(form.s3_language, <<"e", "n">>), Whitespace)
                s3_video_name == sanitize_folder_name(vid_display)
            IN  form' = [form EXCEPT
                    !.pos = "uploaded", !.cid = cid,
                    !.vid_display = vid_display, !.lang = lang,
                    !.sent = <<[kind |-> "prefix", course_id |-> cid,
                                language |-> lang, name |-> s3_video_name]>>]
       ELSE form' = [form EXCEPT !.left = @ - 1, !.sent = <<>>]
    /\ FormFrame

\* after the upload: the content record is created from the same locals,
\* unless the upload failed or was cancelled
FormCreateRecord(uploaded) ==
    /\ form.pos = "uploaded"
    /\ form' = [form EXCEPT
           !.pos = "worker", !.left = @ - 1,
           !.cid = <<>>, !.vid_display = <<>>, !.lang = <<>>,
           !.sent = IF uploaded
                    THEN Append(@, [kind |-> "record",
                                    course_id |-> form.cid,
                                    language |-> form.lang,
                                    name |-> form.vid_display])
                    ELSE @]
    /\ FormFrame

\* the run is over
FormFinish ==
    /\ form.pos = "worker"
    /\ form.left = 0
    /\ form' = [form EXCEPT !.pos = "idle", !.sent = <<>>]
    /\ FormFrame

\* ------------------------------------- overall progress during a queue run

\* Fractions of a file are kept in thousandths of a file, per-quality
\* percentages in whole percent, the overall bar in hundredths of a percent:
\* ((jobs_done + fraction) / jobs_total) * 100.0
ProgOverall(done, frac, total) == ((done * 1000 + frac) * 10) \div total

\* a dict entry that is not there
Absent == -1

ProgFrame == UNCHANGED <<appVars, envVars, uiVars, workerVars, call, exceptProg>>

\* a callback posted with root.after(0, ...): op names the function, q and p
\* are the arguments bound when it was posted, done and frac the values of an
\* overall percentage computed before posting; file and phase tell which file
\* and which stage of the worker posted it
Callback(op, q, p, done, frac, phase) ==
    [op |-> op, q |-> q, p |-> p, done |-> done, frac |-> frac,
     file |-> prog.idx, phase |-> phase]

PostProgress(pr, cb) == [pr EXCEPT !.posted = Append(@, cb)]

CanPost == Len(prog.posted) < MaxPosted

\* _cancel_transcript_progress_timer, then the rest of _reset_progress
ResetProgress(pr, reset_overall, by) ==
    [pr EXCEPT !.after_id = FALSE,
               !.per_quality_progress = [q \in DOMAIN @ |-> Absent],
               !.current_job_percent = 0,
               !.overall_bar = IF reset_overall THEN 0 ELSE @,
               !.transcript_bar = 0,
               !.writer = by]

\* effective, in _update_quality_progress: 0.85 once every quality is complete
\* and a transcription follows, avg / 100.0 otherwise
EncodeFraction(avg, reserve) ==
    IF avg >= 100 /\ reserve THEN 850 ELSE avg * 10

\* _update_quality_progress(quality, percent, selected), run by the UI thread
UpdateQuality(pr, quality, percent, sel, cb) ==
    LET progress == [pr.per_quality_progress EXCEPT ![quality] = percent]
        get(q) == IF progress[q] = Absent THEN 0 ELSE progress[q]
        sum == IF Len(sel) = 1 THEN get(sel[1]) ELSE get(sel[1]) + get(sel[2])
        avg == IF sel # <<>> THEN sum \div Len(sel) ELSE 0
        effective == EncodeFraction(avg, pr.transcribe_enabled /\ pr.audio_exists)
    IN  [pr EXCEPT
            !.per_quality_progress = progress,
            !.current_job_percent = IF sel # <<>> THEN avg ELSE @,
            !.overall_bar = IF pr.jobs_total > 0
                            THEN ProgOverall(pr.jobs_done, effective, pr.jobs_total)
                            ELSE avg * 100,
            !.last = [by |-> cb.op, phase |-> cb.phase, file |-> cb.file,
                      done |-> pr.jobs_done, frac |-> effective,
                      reserve |-> pr.transcribe_enabled /\ pr.audio_exists],
            !.writer = "ui"]

\* for q in self.current_selected: self._update_quality_progress(q, 100.0, ...)
RECURSIVE UpdateEach(_, _, _, _)
UpdateEach(pr, qs, sel, cb) ==
    IF qs = <<>> THEN pr
    ELSE UpdateEach(UpdateQuality(pr, Head(qs), 100, sel, cb), Tail(qs), sel, cb)

\* _update_overall with a percentage that stands for done files and frac of
\* the next one
UpdateOverall(pr, done, frac, cb) ==
    [pr EXCEPT !.overall_bar = ProgOverall(done, frac, pr.jobs_total),
               !.last = [by |-> cb.op, phase |-> cb.phase, file |-> cb.file,
                         done |-> done, frac |-> frac, reserve |-> FALSE],
               !.writer = "ui"]

\* variant of UploadFraction: the band starts at 0.75 and ends at 0.55
UploadFractionDown(current, total) ==
    IF total > 0 THEN 750 - (200 * current) \div total ELSE 750

\* p, in on_progress: 0.75 + 0.20 * (current / total)
UploadFraction(current, total) ==
    IF total > 0 THEN 750 + (200 * current) \div total ELSE 750

\* on_start: the counters of the run; the worker thread is started
ProgStart(n, sel, transcribe) ==
    /\ prog.pos = "idle"
    /\ prog.runs < MaxProgRuns
    /\ prog' = [prog EXCEPT !.jobs_total = n, !.jobs_done = 0, !.idx = 0,
                            !.runs = @ + 1,
                            !.selected = sel, !.transcribe_enabled = transcribe,
                            !.pos = "begin"]
    /\ ProgFrame

\* the worker's first statement posts _reset_progress(reset_overall=True)
ProgBegin ==
    /\ prog.pos = "begin"
    /\ CanPost
    /\ prog' = PostProgress([prog EXCEPT !.pos = "next"],
                    Callback("reset", None, 0, 0, 0, "begin"))
    /\ ProgFrame

\* the top of the loop body for the next file: the probe, then
\* _reset_progress(reset_overall=False) and the new progress map, both run by
\* the worker thread itself
ProgSetup(audio) ==
    /\ prog.pos = "next"
    /\ prog.idx < prog.jobs_total
    /\ LET pr == [prog EXCEPT !.idx = @ + 1, !.audio_exists = audio,
                              !.q_idx = 1, !.pos = "encode"]
           reset == ResetProgress(pr, FALSE, "worker")
       IN  prog' = [reset EXCEPT !.per_quality_progress =
                       [q \in DOMAIN @ |->
                           IF \E i \in 1..Len(pr.selected) : pr.selected[i] = q
                           THEN 0 ELSE Absent]]
    /\ ProgFrame

\* the encoder reports a percentage of the quality being rendered
ProgEncode(percent) ==
    /\ prog.pos = "encode"
    /\ CanPost
    /\ prog' = PostProgress(prog, Callback("quality", prog.selected[prog.q_idx],
                                   percent, 0, 0, "encode"))
    /\ ProgFrame

\* the end of one _render_single_quality: the closing 100 of a rendition, or
\* a failure, which completes the file as failed
ProgEncodeEnd(ok) ==
    /\ prog.pos = "encode"
    /\ CanPost
    /\ IF ok
       THEN prog' = PostProgress([prog EXCEPT
                            !.q_idx = @ + 1,
                            !.pos = IF prog.q_idx = Len(prog.selected)
                                    THEN "transcribe" ELSE "encode"],
                         Callback("quality", prog.selected[prog.q_idx], 100,
                                  0, 0, "encode"))
       ELSE prog' = PostProgress([prog EXCEPT !.jobs_done = prog.idx, !.pos = "next"],
                         Callback("overall", None, 0, prog.idx, 0, "encode"))
    /\ ProgFrame

\* the test of the transcription stage and its first post
ProgTranscribeBegin ==
    /\ prog.pos = "transcribe"
    /\ CanPost
    /\ IF TranscribeCondition(prog.transcribe_enabled, prog.audio_exists)
       THEN prog' = PostProgress([prog EXCEPT !.pos = "transcribing"],
                         Callback("transcript_running", None, 0, 0, 0,
                                  "transcribe"))
       ELSE prog' = [prog EXCEPT !.pos = "upload"]
    /\ ProgFrame

\* the end of the transcription stage
ProgTranscribeEnd(ok) ==
    /\ prog.pos = "transcribing"
    /\ CanPost
    /\ prog' = PostProgress([prog EXCEPT !.pos = "upload"],
                    Callback(IF ok THEN "transcript_done" ELSE "transcript_idle",
                             None, 0, 0, 0, "transcribe"))
    /\ ProgFrame

\* the start of the S3 phase with n files to send, or no S3 phase
ProgUploadBegin(s3, n) ==
    /\ prog.pos = "upload"
    /\ CanPost
    /\ IF s3
       THEN prog' = PostProgress([prog EXCEPT !.pos = "uploading", !.n = n, !.k = 0],
                         Callback("overall_lazy", None, 0, 0, 750, "upload"))
       ELSE n = 1 /\ prog' = [prog EXCEPT !.pos = "complete", !.n = 0, !.k = 0]
    /\ ProgFrame

\* on_progress, called by upload_directory after a transfer
ProgUploadFile ==
    /\ prog.pos = "uploading"
    /\ prog.k < prog.n
    /\ CanPost
    /\ prog' = PostProgress([prog EXCEPT !.k = @ + 1],
                    Callback("overall", None, 0, prog.jobs_done,
                             UploadFraction(prog.k + 1, prog.n), "upload"))
    /\ ProgFrame

\* upload_directory returns or raises
ProgUploadEnd(outcome) ==
    /\ prog.pos = "uploading"
    /\ CanPost
    /\ outcome = "ok" => prog.k = prog.n
    /\ IF outcome = "ok"
       THEN prog' = PostProgress([prog EXCEPT !.pos = "record"],
                         Callback("overall_lazy", None, 0, 0, 950, "upload"))
       ELSE prog' = PostProgress([prog EXCEPT !.jobs_done = prog.idx, !.pos = "next"],
                         Callback("overall", None, 0, prog.idx, 0, "upload"))
    /\ ProgFrame

\* create_file_record returns or raises
ProgRecord(ok) ==
    /\ prog.pos = "record"
    /\ CanPost
    /\ IF ok
       THEN prog' = PostProgress([prog EXCEPT !.pos = "complete"],
                         Callback("overall_lazy", None, 0, 0, 980, "upload"))
       ELSE prog' = PostProgress([prog EXCEPT !.jobs_done = prog.idx, !.pos = "next"],
                         Callback("overall", None, 0, prog.idx, 0, "upload"))
    /\ ProgFrame

\* the file is complete: jobs_done = idx and the percentage of idx files
ProgComplete ==
    /\ prog.pos = "complete"
    /\ CanPost
    /\ prog' = PostProgress([prog EXCEPT !.jobs_done = prog.idx, !.pos = "next"],
                    Callback("overall", None, 0, prog.idx, 0,
                             IF prog.n > 0 THEN "upload" ELSE "complete"))
    /\ ProgFrame

\* after the loop: _finish_queue_complete is posted
ProgEnd ==
    /\ prog.pos = "next"
    /\ prog.idx = prog.jobs_total
    /\ CanPost
    /\ prog' = PostProgress([prog EXCEPT !.pos = "ended"],
                    Callback("finish", None, 0, 0, 0, "end"))
    /\ ProgFrame

\* the Tk main loop runs the oldest posted callback
ProgApply ==
    /\ prog.posted # <<>>
    /\ LET cb == Head(prog.posted)
           pr == [prog EXCEPT !.posted = Tail(@)]
       IN  prog' =
             CASE cb.op = "reset" -> ResetProgress(pr, TRUE, "ui")
               [] cb.op = "quality" ->
                      UpdateQuality(pr, cb.q, cb.p, pr.selected, cb)
               [] cb.op = "transcript_running" ->
                      [pr EXCEPT !.simulated_pct = 0, !.after_id = TRUE,
                                 !.transcript_bar = 0,
                                 !.transcript_state = "running",
                                 !.writer = "ui"]
               [] cb.op = "transcript_done" ->
                      UpdateOverall([pr EXCEPT !.after_id = FALSE,
                                                !.transcript_bar = 100,
                                                !.transcript_state = "done"],
                                    pr.jobs_done, 1000, cb)
               [] cb.op = "transcript_idle" ->
                      [pr EXCEPT !.after_id = FALSE, !.transcript_bar = 0,
                                 !.transcript_state = "idle",
                                 !.writer = "ui"]
               [] cb.op = "overall_lazy" ->
                      UpdateOverall(pr, pr.jobs_done, cb.frac, cb)
               [] cb.op = "overall" -> UpdateOverall(pr, cb.done, cb.frac, cb)
               [] cb.op = "finish" ->
                      [UpdateEach(UpdateOverall(pr, pr.jobs_total, 0, cb),
                                  pr.selected, pr.selected, cb)
                       EXCEPT !.pos = "idle"]
    /\ ProgFrame

\* variant of TickPercent: the estimate is not held at 90
TickPercentUnbounded(simulated) == simulated + 4

\* min(90.0, self._transcript_simulated_pct + 4.0)
TickPercent(simulated) == Min(90, simulated + 4)

\* _tick_transcript_progress, run by the timer armed 300 ms earlier
ProgTick ==
    /\ prog.after_id
    /\ LET pct == TickPercent(prog.simulated_pct)
           effective == 850 + (15 * pct) \div 10
       IN  prog' = [prog EXCEPT
                       !.simulated_pct = pct,
                       !.transcript_bar = pct,
                       !.after_id = pct < 90,
                       !.overall_bar = ProgOverall(prog.jobs_done, effective,
                                                   prog.jobs_total),
                       !.last = [by |-> "tick", phase |-> "transcribe",
                                 file |-> prog.idx, done |-> prog.jobs_done,
                                 frac |-> effective, reserve |-> FALSE],
                       !.writer = "ui"]
    /\ ProgFrame

\* ----------------------------------------------------------- specifications

\* One queue run: every step of the worker against every answer of the
\* environment.
Worker(w) ==
    \/ \E ok \in BOOLEAN : WorkerBegin(w, ok)
    \/ \E exists \in BOOLEAN : NextFile(w, exists)
    \/ \E o \in {"ok", "mkdir_raises", "probe_raises"}, a \in BOOLEAN :
           SetupFile(w, o, a)
    \/ \E o \in {"ok", "launch_failed", "exit_nonzero", "stuck", "raises"} :
           RenderQuality(w, o)
    \/ \E ok \in BOOLEAN : WriteMaster(w, ok)
    \/ \E t \in BOOLEAN, o \in TranscribeOutcomes, left \in BOOLEAN :
           Transcribe(w, t, o, left)
    \/ \E ok \in BOOLEAN : FinishRender(w, ok)
    \/ \E s3 \in BOOLEAN, raises \in BOOLEAN : SaveHistory(w, s3, raises, "current")
    \/ \E n \in 1..MaxObjects : UploadDirectoryBegin(w, n)
    \/ \E o \in TransferOutcomes : UploadLoop(w, o)
    \/ AfterUpload(w)
    \/ \E r \in BOOLEAN, del \in BOOLEAN, rm \in {"removed", "partial", "failed"} :
           CreateRecord(w, r, del, rm)
    \/ S3Except(w)
    \/ CompleteFile(w)

User ==
    \/ \E fp \in Paths : on_add_files(fp)
    \/ \E i \in 1..Cardinality(Paths) : on_remove_selected(i)
    \/ on_clear_list
    \/ on_s3_cancel
    \/ \E qv \in QualityChoices, s3 \in BOOLEAN, mode \in {"all", "selected"},
          sel \in 1..Cardinality(Paths), present \in SUBSET Paths :
           on_start("T1", qv, s3, mode, sel, present)

Next ==
    \/ User
    \/ \E t \in BOOLEAN : UiStep(t)
    \/ Worker("T1")

Spec == Init /\ [][Next]_vars

\* Successive Start commands while encodes succeed, fail or stall, over files
\* with and without audio, transcribed when the box is ticked, and the
\* history file written or not; no upload, no missing file.
RunsWorker(w) ==
    \/ WorkerBegin(w, TRUE)
    \/ NextFile(w, TRUE)
    \/ \E audio \in BOOLEAN : SetupFile(w, "ok", audio)
    \/ \E o \in {"ok", "exit_nonzero", "stuck"} : RenderQuality(w, o)
    \/ WriteMaster(w, TRUE)
    \/ \E t \in BOOLEAN : Transcribe(w, t, "ok", FALSE)
    \/ FinishRender(w, TRUE)
    \/ \E write \in {"current", "stale", "truncated"} :
           SaveHistory(w, FALSE, FALSE, write)
    \/ CompleteFile(w)

RunsUser ==
    \/ \E fp \in Paths : on_add_files(fp)
    \/ \E w \in Threads : on_start(w, {"1080p"}, FALSE, "all", 1, Paths)

NextRuns ==
    \/ RunsUser
    \/ UiStep(FALSE)
    \/ \E w \in Threads : RunsWorker(w)

SpecRuns == Init /\ [][NextRuns]_vars

\* The upload manager driven directly.
NextUpload ==
    \/ \E s \in PresignScripts : CallPresign(s)
    \/ \E f \in BOOLEAN, s \in PutScripts : CallUploadFile(f, s)
    \/ \E d \in BOOLEAN, n \in 0..MaxObjects : CallUploadDirectory(d, n)
    \/ \E c \in BOOLEAN, pa \in PresignScripts, f \in BOOLEAN,
          fa \in DirectoryPutScripts :
           UploadDirectoryStep(c, pa, f, fa)

SpecUpload == Init /\ [][NextUpload]_vars

\* One encode at a time, driven directly.
NextEncode ==
    \/ \E d \in Durations, ok \in BOOLEAN, before \in {"absent", "stale"},
          rm \in {"removed", "partial", "failed"} :
           StartEncode(d, ok, before, rm)
    \/ \E kind \in LineKinds, cur \in Elapsed, exit \in {"running", "zero", "nonzero"},
          quiet \in QuietSteps, log_ok \in BOOLEAN :
           EncodeIteration(kind, cur, exit, quiet, log_ok)

SpecEncode == Init /\ [][NextEncode]_vars

\* The playlist builders called with any list of qualities.
NextPlaylist ==
    \/ \E sel \in QualityLists : CallAddMasterPlaylist(sel)
    \/ \E sel \in QualityLists, sub \in BOOLEAN :
           CallAddMasterPlaylistWithSubtitles(sel, sub)

SpecPlaylist == Init /\ [][NextPlaylist]_vars

\* sanitize_folder_name called with any name.
NextSanitize == \E name \in Names : CallSanitize(name)

SpecSanitize == Init /\ [][NextSanitize]_vars

\* Runs of up to MaxFormFiles files while the user edits the S3 fields.
NextForm ==
    \/ \E b \in BOOLEAN : EditEnabled(b)
    \/ \E v \in CourseIds : EditCourseId(v)
    \/ \E v \in VideoNames : EditVideoName(v)
    \/ \E v \in Languages : EditLanguage(v)
    \/ \E n \in 1..MaxFormFiles : FormStart(n)
    \/ FormUploadPhase
    \/ \E uploaded \in BOOLEAN : FormCreateRecord(uploaded)
    \/ FormFinish

SpecForm == Init /\ [][NextForm]_vars

\* Queue runs of up to MaxProgFiles files seen through the overall progress
\* bar: the worker posts, the UI thread applies, the transcript timer ticks.
NextProgress ==
    \/ \E n \in 1..MaxProgFiles, sel \in {<<"1080p">>, <<"1080p", "720p">>}, t \in BOOLEAN :
           ProgStart(n, sel, t)
    \/ ProgBegin
    \/ \E audio \in BOOLEAN : ProgSetup(audio)
    \/ \E p \in {90} : ProgEncode(p)
    \/ \E ok \in BOOLEAN : ProgEncodeEnd(ok)
    \/ ProgTranscribeBegin
    \/ \E ok \in BOOLEAN : ProgTranscribeEnd(ok)
    \/ \E s3 \in BOOLEAN, n \in 1..MaxObjects : ProgUploadBegin(s3, n)
    \/ ProgUploadFile
    \/ \E o \in {"ok", "cancelled", "raises"} : ProgUploadEnd(o)
    \/ \E ok \in BOOLEAN : ProgRecord(ok)
    \/ ProgComplete
    \/ ProgEnd
    \/ ProgApply
    \/ ProgTick

SpecProgress == Init /\ [][NextProgress]_vars

\* ------------------------------------------------------------- properties

LastRecord(w) == queue_results[w][Len(queue_results[w])]

\* the worker is between two files (or past the last one)
FileEnded(w) == pc[w] \in {"loop", "done"} /\ idx[w] > 0

\* one of the steps in S was taken for the current file of w
Ran(w, S) == \E k \in 1..Len(stages[w]) : stages[w][k] \in S

\* the newest record of w is the one of its current file
RecordedLast(w) ==
    /\ queue_results[w] # <<>>
    /\ LastRecord(w).file = files[w][idx[w]]

EncodeFailures == {"encode_failed", "master_failed"}
TranscribeFailures == TranscribeOutcomes \ {"ok"}
UploadFailures == {"upload_failed", "upload_cancelled"}
UploadErrors == {"Upload cancelled", "S3/File record error"}

\* the summary callbacks waiting in the Tk queue
SummaryEvents ==
    {k \in 1..Len(uiQueue) : uiQueue[k].op = "finish_queue_complete"}

\* a worker thread that is running
Active(w) == pc[w] \notin {"idle", "done", "delivered", "crashed"}

\* C1: when the encode of a quality fails (non-zero exit, failure to launch,
\* stall) or the initial master playlist cannot be written, the file's record
\* is appended with status "failed" and a non-empty error, nothing else is run
\* for the file (no further quality, no transcription, rebuild or upload), and
\* the worker is back at the top of its loop.
C1_EncodeFailureFailsFile ==
    \A w \in Threads :
        Ran(w, EncodeFailures) =>
            /\ stages[w][Len(stages[w])] \in EncodeFailures
            /\ \A k \in 1..(Len(stages[w]) - 1) : stages[w][k] \in {"probe", "encode_ok"}
            /\ pc[w] \in {"loop", "done"}
            /\ jobs_done = idx[w]
            /\ RecordedLast(w)
            /\ LastRecord(w).status = "failed"
            /\ LastRecord(w).error # None

\* C1 witness: a stalled encode of the first of two files has been recorded
\* and the worker is about to take the second file.
C1_Witness ==
    \E w \in Threads :
        /\ Ran(w, {"encode_failed"})
        /\ pc[w] = "loop"
        /\ idx[w] < Len(files[w])
        /\ RecordedLast(w)
        /\ LastRecord(w).error = "Rendering was interrupted"

C4_UploadFailureKeepsSuccess ==
    \A w \in Threads :
        /\ Ran(w, UploadFailures) => file_result[w].status = "success"
        /\ \A k \in 1..Len(queue_results[w]) :
               queue_results[w][k].error \in UploadErrors =>
                   /\ queue_results[w][k].status = "success"
                   /\ queue_results[w][k].output_dir # None

\* C4 witness: the upload of the second file of a run raised, and both
\* records are there.
C4_Witness ==
    \E w \in Threads :
        /\ Ran(w, {"upload_failed"})
        /\ Len(queue_results[w]) = 2
        /\ LastRecord(w).status = "success"
        /\ LastRecord(w).error = "S3/File record error"

\* C5 (as claimed): every record with status "success" in a summary that is
\* about to be shown has its master playlist on disk.
C5_SuccessHasMasterOnDisk ==
    \A k \in SummaryEvents :
        \A i \in 1..Len(uiQueue[k].arg) :
            uiQueue[k].arg[i].status = "success" =>
                uiQueue[k].arg[i].master_path \in masters

\* C5 (amended): every record with status "success" in a summary that is
\* about to be shown names a master playlist, and that playlist is on disk
\* unless the delete-local-after-upload step was run on the record's output
\* folder during the run.
C5_Amended ==
    \A k \in SummaryEvents :
        \A i \in 1..Len(uiQueue[k].arg) :
            uiQueue[k].arg[i].status = "success" =>
                /\ uiQueue[k].arg[i].master_path # None
                /\ \/ uiQueue[k].arg[i].master_path \in masters
                   \/ uiQueue[k].arg[i].output_dir \in deleted_local

\* C5 witness: a summary is waiting that holds a success with subtitles whose
\* master playlist is on disk, no folder having been deleted.
C5_Witness ==
    \E k \in SummaryEvents :
        \E i \in 1..Len(uiQueue[k].arg) :
            /\ uiQueue[k].arg[i].status = "success"
            /\ uiQueue[k].arg[i].subtitle_playlist_path # None
            /\ uiQueue[k].arg[i].master_path \in masters
            /\ deleted_local = {}

\* C6: when the worker has finished its run, its result list holds exactly
\* one record per file of the run, in queue order.
C6_OneRecordPerFile ==
    \A w \in Threads :
        pc[w] = "done" =>
            /\ Len(queue_results[w]) = Len(files[w])
            /\ \A i \in 1..Len(files[w]) : queue_results[w][i].file = files[w][i]

\* C7: a worker thread only ends after it has visited every file of its run
\* and posted the final summary.
C7_RunEndsWithSummary ==
    \A w \in Threads :
        pc[w] \in {"done", "crashed"} =>
            /\ idx[w] = Len(files[w])
            /\ \E k \in SummaryEvents : uiQueue[k].w = w

\* C8: at most one render worker is running at any time.
C8_AtMostOneWorker == Cardinality({w \in Threads : Active(w)}) <= 1

\* C9: a presign call whose first response is 401/403 makes exactly one
\* request, does not sleep, and raises.
C9_AuthErrorNotRetried ==
    (call.op = "get_presigned_url_exact" /\ call.inputs[1].presign[1] = "auth") =>
        /\ Len(call.presign[1]) = 1
        /\ call.sleeps = <<>>
        /\ call.outcome = "raised"

\* C10: in upload_directory, a file whose presign request fails twice with a
\* transient error and succeeds on the third attempt, and whose transfer the
\* store accepts, gets three presign requests, exactly one successful PUT,
\* and exactly one entry in the returned list.
C10_ThirdPresignUploadsOnce ==
    call.op = "upload_directory" =>
        \A i \in 1..Len(call.inputs) :
            (/\ call.inputs[i].presign = <<"transient", "transient", "ok">>
             /\ call.inputs[i].is_file
             /\ \E k \in 1..MAX_RETRIES : call.inputs[i].put[k] = "ok") =>
                /\ Len(call.presign[i]) = 3
                /\ Cardinality({k \in 1..Len(call.put[i]) : call.put[i][k] = "ok"}) = 1
                /\ call.put[i][Len(call.put[i])] = "ok"
                /\ Cardinality({k \in 1..Len(call.uploaded) : call.uploaded[k] = i}) = 1

\* C10 witness: upload_directory returned after uploading a second file whose
\* presign succeeded on the third attempt.
C10_Witness ==
    /\ call.op = "upload_directory"
    /\ call.outcome = "returned"
    /\ Len(call.inputs) = 2
    /\ call.inputs[2].presign = <<"transient", "transient", "ok">>
    /\ call.uploaded = <<1, 2>>
    /\ call.sleeps = <<1, 3>>

\* C11: a presign call makes at most 3 requests and sleeps between
\* consecutive requests for the first entries of the schedule 1 s, 3 s, 10 s,
\* in order; when every request fails with a transient error, 3 requests are
\* made, the waits are 1 s and 3 s, and the call raises.
C11_PresignBoundedRetries ==
    call.op = "get_presigned_url_exact" =>
        LET seen == call.presign[1]
        IN  /\ Len(seen) \in 1..3
            /\ call.sleeps = SubSeq(<<1, 3, 10>>, 1, Len(seen) - 1)
            /\ (\A k \in 1..3 : call.inputs[1].presign[k] = "transient") =>
                   /\ seen = <<"transient", "transient", "transient">>
                   /\ call.outcome = "raised"

\* C11 witness: a presign call answered with transient errors only has raised
\* after its third request.
C11_Witness ==
    /\ call.op = "get_presigned_url_exact"
    /\ call.inputs[1].presign = <<"transient", "transient", "transient">>
    /\ call.presign = <<(<<"transient", "transient", "transient">>)>>
    /\ call.sleeps = <<1, 3>>
    /\ call.outcome = "raised"

\* C12: a returned upload_directory call over N files has uploaded the files
\* 1..k in walked order, where k < N exactly when cancel_check() answered
\* TRUE before file k + 1; cancel_check() was called once before each file
\* started and once more when it stopped the loop, and every file started was
\* transferred.
C12_CancelReturnsPrefix ==
    (call.op = "upload_directory" /\ call.outcome = "returned") =>
        LET k == Len(call.uploaded)
        IN  /\ call.uploaded = [i \in 1..k |-> i]
            /\ k <= call.total
            /\ Len(call.put) = k
            /\ \A i \in 1..k : call.put[i] # <<>> /\ call.put[i][Len(call.put[i])] = "ok"
            /\ call.cancel = [i \in 1..Len(call.cancel) |-> i = k + 1]
            /\ Len(call.cancel) = IF k < call.total THEN k + 1 ELSE k

\* C12 witness: upload_directory over two files returned the first one after
\* cancel_check() answered TRUE before the second.
C12_Witness ==
    /\ call.op = "upload_directory"
    /\ call.outcome = "returned"
    /\ call.total = 2
    /\ call.uploaded = <<1>>
    /\ call.cancel = <<FALSE, TRUE>>

\* C14: the percentages one encode has posted never decrease, and each is at
\* least 0.2 % above the one posted before it, except the 100 % posted last
\* by an encode that exited with code 0.
C14_PostedProgressSteps ==
    LET n == Len(enc.posted)
        forced == IF enc.result = "ok" THEN n ELSE n + 1
    IN  \A k \in 1..(n - 1) :
            /\ enc.posted[k] <= enc.posted[k + 1]
            /\ k + 1 # forced => enc.posted[k + 1] - enc.posted[k] >= 20

\* C14 witness: an encode that posted at least two parsed percentages, the
\* last of them 100 %, exited with code 0 and posted 100 % again.
C14_Witness ==
    /\ enc.result = "ok"
    /\ Len(enc.posted) >= 3
    /\ enc.posted[Len(enc.posted) - 1] = 10000
    /\ enc.posted[Len(enc.posted)] = 10000

\* C15 (as claimed): the percent computed from a parsed time e and a probed
\* duration d >= 0 is clamp(100 * e / max(d, epsilon), 0, 100): it lies in
\* [0, 100], is 0 when e <= 0, is 100 when e >= d, and the divisor is not 0.
C15_PercentClamped ==
    enc.parsed =>
        LET total == IF enc.duration >= Epsilon THEN enc.duration ELSE Epsilon
            raw == (enc.cur_s * 10000) \div total
        IN  /\ enc.total_s = total /\ total > 0
            /\ enc.percent = (IF raw < 0 THEN 0 ELSE IF raw > 10000 THEN 10000 ELSE raw)
            /\ enc.percent \in 0..10000
            /\ enc.cur_s <= 0 => enc.percent = 0
            /\ enc.cur_s >= enc.duration => enc.percent = 10000

\* C15 (amended): as C15, but the percent is 100 when e >= max(d, epsilon);
\* with d = 0 a parsed time of 0 gives 0.
C15_Amended ==
    enc.parsed =>
        LET total == IF enc.duration >= Epsilon THEN enc.duration ELSE Epsilon
            raw == (enc.cur_s * 10000) \div total
        IN  /\ enc.total_s = total /\ total > 0
            /\ enc.percent = (IF raw < 0 THEN 0 ELSE IF raw > 10000 THEN 10000 ELSE raw)
            /\ enc.percent \in 0..10000
            /\ enc.cur_s <= 0 => enc.percent = 0
            /\ enc.cur_s >= total => enc.percent = 10000

\* C15 witness: with no probed duration, a parsed time above 0 gave 100 %.
C15_Witness ==
    /\ enc.parsed
    /\ enc.duration = 0
    /\ enc.cur_s > 0
    /\ enc.percent = 10000

\* C17: an encode in which more than 30 s passed without a line on either
\* stream has killed the encoder, written the log file, posted the error
\* and returned failure.
C17_WatchdogKillsAndLogs ==
    enc.stalled =>
        /\ enc.killed
        /\ enc.log
        /\ enc.reported
        /\ enc.state = "returned"
        /\ enc.result = "stuck"

C13_RecordOnceNoRollback ==
    \A w \in Threads :
        /\ Cardinality({k \in 1..Len(stages[w]) :
               stages[w][k] \in {"record_created", "record_failed"}}) <= 1
        /\ Ran(w, {"record_created", "record_failed"}) =>
               /\ up[w].total >= 1
               /\ up[w].uploaded = up[w].total
               /\ pc[w] \notin {"upload_directory", "upload_loop",
                                "upload_returned", "create_record"}
        /\ (Ran(w, {"record_failed"}) /\ FileEnded(w)) =>
               /\ RecordedLast(w)
               /\ LastRecord(w).error = "S3/File record error"
               /\ LastRecord(w).status = "success"

\* C13 witness: the record call of a file failed after its objects (two or
\* more) were uploaded, and the file has been recorded.
C13_Witness ==
    \E w \in Threads :
        /\ FileEnded(w)
        /\ Ran(w, {"record_failed"})
        /\ up[w].uploaded = up[w].total
        /\ up[w].total >= 2
        /\ LastRecord(w).error = "S3/File record error"

\* C16: when a run that processed at least one file is complete (its summary
\* handler has run, no callback is waiting, no worker is running), the
\* overall progress bar is at exactly 100 %.
C16_OverallIsHundredAtCompletion ==
    \A w \in Threads :
        (/\ pc[w] = "delivered"
         /\ summaries[w].total > 0
         /\ uiQueue = <<>>
         /\ ~is_running
         /\ \A v \in Threads : ~Active(v)) =>
            overall_bar = 10000

\* C18: when the transcription stage of a file is over, whatever its
\* outcome, the extracted-audio file is not in the output folder.
C18_TempAudioRemoved ==
    \A w \in Threads :
        (Ran(w, TranscribeOutcomes) /\ pc[w] = "finish_render") =>
            output_dir \notin temp_audio

\* C19: the steps taken for a file follow the order probing, encoding (one
\* step per selected quality), initial playlist, transcription, final
\* playlist, upload: a step is only taken when the steps before it are over,
\* nothing follows a failed encode or a failed initial playlist, the master
\* playlist is rebuilt only after a transcription that succeeded and left a
\* subtitle playlist, and the upload phase is entered only after the last
\* playlist build, with the file's status already "success".
C19_StageOrder ==
    \A w \in Threads :
        LET s == stages[w]
            Rank(x) == CASE x = "probe" -> 1
                         [] x \in {"encode_ok", "encode_failed", "encode_raised"} -> 2
                         [] x \in {"master_ok", "master_failed"} -> 3
                         [] x \in TranscribeOutcomes -> 4
                         [] x \in {"rebuild_ok", "rebuild_failed"} -> 5
                         [] OTHER -> 6
            encoded == Cardinality({k \in 1..Len(s) : s[k] = "encode_ok"})
        IN  /\ s # <<>> => s[1] = "probe"
            /\ \A i, j \in 1..Len(s) :
                   i < j => /\ Rank(s[i]) <= Rank(s[j])
                            /\ Rank(s[i]) = Rank(s[j]) => Rank(s[i]) \in {2, 6}
                            /\ s[i] \notin {"encode_failed", "encode_raised",
                                            "master_failed"}
            /\ Ran(w, {"master_ok", "master_failed"}) => encoded = Len(selected[w])
            /\ Ran(w, {"rebuild_ok", "rebuild_failed"}) =>
                   /\ Ran(w, {"ok", "raises_after_subtitles"})
                   /\ trans[w].success
                   /\ trans[w].subtitle # None
            /\ pc[w] = "render" => s # <<>> /\ \A k \in 1..Len(s) : Rank(s[k]) <= 2
            /\ pc[w] = "transcribe" => s[Len(s)] = "master_ok"
            /\ pc[w] = "finish_render" =>
                   Ran(w, {"master_ok"}) /\ \A k \in 1..Len(s) : Rank(s[k]) <= 4
            /\ pc[w] \in UploadPhase \cup {"history", "complete"} =>
                   /\ Ran(w, {"master_ok"})
                   /\ file_result[w].status = "success"
            /\ pc[w] \in {"render", "master", "transcribe", "finish_render"} =>
                   file_result[w].status = "failed"

\* C19 witness: a file went through every stage: probed, encoded, first
\* playlist, transcription with subtitles, rebuilt playlist, upload and
\* content record.
C19_Witness ==
    \E w \in Threads :
        /\ FileEnded(w)
        /\ Ran(w, {"ok"})
        /\ Ran(w, {"rebuild_ok"})
        /\ Ran(w, {"record_created"})
        /\ LastRecord(w).status = "success"
        /\ LastRecord(w).subtitle_playlist_path # None

\* C21: the result of sanitize_folder_name for a non-empty name holds none of
\* the characters / \ : * ? " < > |, no two consecutive underscores, and
\* neither starts nor ends with an underscore.
C21_SanitizedNameClean ==
    (folder.called /\ folder.name # <<>>) =>
        LET r == folder.result
        IN  /\ \A i \in 1..Len(r) :
                   r[i] \notin {"/", "\\", ":", "*", "?", "\"", "<", ">", "|"}
            /\ \A i \in 1..(Len(r) - 1) : ~(r[i] = "_" /\ r[i + 1] = "_")
            /\ r # <<>> => r[1] # "_" /\ r[Len(r)] # "_"

\* C27: an upload_file call makes at most 3 requests with the waits 1 s and
\* 3 s between them, retries an answer that is a transient error, and on a
\* 401/403 answer makes no further request, does not sleep, and raises.
C27_PutRetryPolicy ==
    (call.op = "upload_file" /\ call.inputs[1].is_file) =>
        LET seen == call.put[1]
            asked == call.inputs[1].put
        IN  /\ Len(seen) \in 1..3
            /\ call.sleeps = SubSeq(<<1, 3, 10>>, 1, Len(seen) - 1)
            /\ seen = SubSeq(asked, 1, Len(seen))
            /\ (\A k \in 1..3 : asked[k] = "error") =>
                   Len(seen) = 3 /\ call.outcome = "raised"
            /\ \A k \in 1..Len(seen) :
                   seen[k] = "auth" => k = Len(seen) /\ call.outcome = "raised"

\* C28: upload_directory has called the progress callback once for each file
\* it transferred, in order, with the completed counts 1, 2, ..., k and the
\* number of files found as total; no call was made for a file whose presign
\* or transfer failed, or that was not started.
C28_ProgressPerTransferredFile ==
    call.op = "upload_directory" =>
        LET transferred == {i \in 1..Len(call.put) :
                              /\ call.put[i] # <<>>
                              /\ call.put[i][Len(call.put[i])] = "ok"}
        IN  /\ Len(call.progress) = Cardinality(transferred)
            /\ Len(call.progress) = Len(call.uploaded)
            /\ \A k \in 1..Len(call.progress) :
                   /\ call.progress[k] = <<k, call.total>>
                   /\ k \in transferred
            /\ Len(call.progress) <= call.total

\* C28 witness: upload_directory over two files was left by an exception in
\* the second file after one progress call for the first.
C28_Witness ==
    /\ call.op = "upload_directory"
    /\ call.outcome = "raised"
    /\ call.total = 2
    /\ Len(call.put) = 2
    /\ call.progress = <<(<<1, 2>>)>>

C29_TranscribeOnceIffDue ==
    \A w \in Threads :
        LET s == stages[w]
            attempts == Cardinality({k \in 1..Len(s) : s[k] \in TranscribeOutcomes})
            encoded == /\ Ran(w, {"master_ok"})
                       /\ ~Ran(w, {"encode_failed", "encode_raised", "master_failed"})
        IN  /\ attempts <= 1
            /\ attempts = 1 => encoded
            /\ pc[w] = "finish_render" =>
                   (attempts = 1 <=>
                        (trans[w].enabled /\ trans[w].audio /\ encoded))

\* C22: every upload prefix and every content record a run sends carries a
\* course id of exactly 24 hexadecimal characters, a video name that is not
\* empty and has at most 200 characters, and a supported language, whatever
\* the user types in the fields while the run is in progress.
C22_SentFieldsValid ==
    \A k \in 1..Len(form.sent) :
        LET m == form.sent[k]
        IN  /\ Len(m.course_id) = 24
            /\ \A i \in 1..Len(m.course_id) : m.course_id[i] \in HexChars
            /\ m.name # <<>>
            /\ Len(m.name) <= 200
            /\ m.language \in SUPPORTED_LANGUAGES

\* C24: while a file is being encoded with transcription ticked and audio in
\* the source, the part of the file's share that encoding contributes to the
\* overall percentage is never more than 0.85.
C24_EncodingShareCapped ==
    (/\ prog.last.by = "quality"
     /\ prog.last.phase = "encode"
     /\ prog.last.reserve) => prog.last.frac <= 850

\* the current-file fraction an applied percentage stands for: the fraction
\* written in the callback, or the whole file when the callback carries the
\* percentage of the files done
ShownFraction(l) ==
    IF l.by = "overall" /\ l.done = l.file /\ l.frac = 0 THEN 1000 ELSE l.frac

\* C25: in the upload phase of a file, the current-file fraction that goes
\* into the overall percentage is between 0.75 and 1.0 and never decreases
\* from one applied value to the next: upload start, each transferred file,
\* upload done, record created, file complete.
C25_UploadFractionBand ==
    [][prog'.last.phase = "upload" =>
          /\ ShownFraction(prog'.last) >= 750
          /\ ShownFraction(prog'.last) <= 1000
          /\ (prog.last.phase = "upload" /\ prog.last.file = prog'.last.file) =>
                 ShownFraction(prog'.last) >= ShownFraction(prog.last)]_vars

\* C25 witness: the percentage posted after the content record was created
\* has been applied after the one of the last transferred file.
C25_Witness ==
    /\ prog.last.phase = "upload"
    /\ prog.last.by = "overall_lazy"
    /\ prog.last.frac = 980
    /\ prog.k = prog.n
    /\ prog.n = MaxObjects

\* C26: every overall percentage applied during a run is
\* 100 * (filesCompleted + f) / totalFiles with 0 <= f <= 1 and
\* filesCompleted + f <= totalFiles, hence within 0..100.
C26_OverallWithinRange ==
    prog.last.by # "none" =>
        /\ prog.last.frac >= 0
        /\ prog.last.frac <= 1000
        /\ prog.last.done * 1000 + prog.last.frac <= prog.jobs_total * 1000
        /\ prog.overall_bar >= 0
        /\ prog.overall_bar <= 10000

\* C30: progress state (the per-quality progress map, the current-job
\* percentage, the bars, the transcript timer handle) is only written by
\* callbacks the UI thread runs, never by the worker thread itself.
C30_ProgressWrittenByUiOnly ==
    prog.writer # "worker"

\* a step of the transcript timer: the only step that changes the progress
\* state without posting, running a posted callback or moving the worker
TickStep ==
    /\ prog' # prog
    /\ prog'.posted = prog.posted
    /\ prog'.pos = prog.pos

\* C31: while a transcription is running the simulated transcript progress
\* never decreases and never exceeds 90; the transcript bar shows 100 only
\* after a transcription that succeeded; and once the stage has ended (done or
\* idle) no timer tick changes the transcript progress or the overall bar.
C31_TranscriptEstimate ==
    [][/\ TickStep =>
              /\ prog.transcript_state = "running"
              /\ prog'.simulated_pct >= prog.simulated_pct
              /\ prog'.simulated_pct <= 90
              /\ prog'.transcript_bar = prog'.simulated_pct
       /\ prog'.transcript_bar > 90 =>
              /\ prog'.transcript_bar = 100
              /\ prog'.transcript_state = "done"]_vars

\* C31 witness: the timer has run the estimate up to 90 and stopped, and the
\* transcription is still running.
C31_Witness ==
    /\ prog.transcript_state = "running"
    /\ prog.simulated_pct = 90
    /\ prog.transcript_bar = 90
    /\ ~prog.after_id
    /\ prog.pos = "transcribing"

\* C32: when the encoder of a quality is launched, the quality's output
\* directory exists and holds no file of an earlier run, also when the removal
\* of the directory that was there failed.
C32_FreshQualityDir ==
    enc.state = "running" => enc.qdir = "empty"

\* C33: the persisted history (output_history.json) holds, for every source
\* path that was rendered successfully, the entry of its most recent completed
\* render: the file agrees with the history dict, which has one key per path.
C33_PersistedHistoryCurrent ==
    /\ history.file = "current"
    /\ \A w \in Threads : \A k \in 1..Len(queue_results[w]) :
           queue_results[w][k].status = "success" =>
               queue_results[w][k].file \in history.keys

C36_CancelledOnlyIfIncomplete ==
    \A w \in Threads :
        Ran(w, {"upload_cancelled"}) => up[w].uploaded < up[w].total

\* C37: a posted _update_quality_progress callback that the UI thread runs
\* belongs to the file the worker is on: no update of an earlier file is
\* applied to the progress map after the worker reset the map for a later one.
C37_NoStaleQualityUpdate ==
    [][(/\ prog.posted # <<>>
        /\ prog'.posted = Tail(prog.posted)
        /\ Head(prog.posted).op = "quality") =>
           Head(prog.posted).file = prog.idx]_vars

\* C38: between the start of a queue run and its final summary the value of
\* the overall bar never goes down; the reset posted by the worker's first
\* statement, which begins the run's display at 0, is not counted.
C38_OverallNonDecreasing ==
    [][(/\ prog.posted # <<>>
        /\ prog'.posted = Tail(prog.posted)
        /\ Head(prog.posted).op # "reset") =>
           prog'.overall_bar >= prog.overall_bar]_vars

\* C39: two distinct source files rendered in one queue run have distinct
\* output directories.
C39_DistinctOutputDirs ==
    \A w \in Threads : \A i, j \in 1..Len(queue_results[w]) :
        (/\ queue_results[w][i].file # queue_results[w][j].file
         /\ queue_results[w][i].output_dir # None
         /\ queue_results[w][j].output_dir # None) =>
            queue_results[w][i].output_dir # queue_results[w][j].output_dir

\* C40: from the launch of a run's worker until its final summary handler has
\* run, is_running is true (so Start, Add, Remove, Clear and Change-output
\* are refused).
C40_RunningUntilSummary ==
    \A w \in Threads : (Active(w) \/ pc[w] = "done") => is_running

====
